---- MODULE Spec2Model ----
(***************************************************************************)
(* Jarvis speech-to-text pipeline (src/speech_analysis/stt.py):            *)
(*   - AudioBuffer: the voice-activity detector and sample accumulator     *)
(*     (add_chunk, get_audio_data);                                        *)
(*   - JarvisSTT continuous mode: the audio callback thread and the        *)
(*     _process_audio worker threads it spawns.                            *)
(*                                                                         *)
(* Numbers.  Per-frame RMS values are kept exact: the frames fed to the    *)
(* model are frames whose mean square is a perfect square, so sqrt() is    *)
(* an integer.  Means of RMS values, durations and thresholds are exact    *)
(* rationals [n, d] with d > 0.                                            *)
(***************************************************************************)
EXTENDS Integers, Sequences, FiniteSets, TLC

(***************************************************************************)
(* Bounds of the model                                                     *)
(***************************************************************************)
\* calls made on one AudioBuffer in the default-configuration scenario
MaxCallsDefault == 10
\* calls made on one AudioBuffer in the short-configuration scenario
MaxCallsShort == 6
\* capacity given to AudioBuffer(max_size=...) in the model, in samples
MaxSize == 5
\* frames the audio callback is given in continuous mode
MaxFramesCont == 5
\* _process_audio threads alive at the same time
MaxWorkers == 2
\* calls made on one WakeWordDetector
MaxDetectCalls == 3
\* what time.time() returns when the first call is made, in seconds
StartTime == 10
\* add_chunk calls the audio callback makes in the start/stop model
MaxFramesSess == 3
\* start_listening and stop_listening calls made in the start/stop model
MaxCtlCalls == 3
\* listen_and_transcribe calls made one after the other
MaxListenCalls == 2
\* the timeout given to listen_and_transcribe, in seconds
ListenTimeout == 2
\* add_chunk calls made under a configuration read from a file
MaxCallsCfg == 6
\* transcriptions delivered to the assistant's speech callback
MaxDeliveries == 3
\* speak and stop_speaking calls made on the JarvisTTS
MaxTtsCalls == 3

(***************************************************************************)
(* Program constants                                                       *)
(***************************************************************************)
\* deque(maxlen=10) of recent RMS values
RecentRmsMaxLen == 10
\* len(self.recent_rms) >= 5 before the background estimate is taken
MinRmsForBackground == 5
\* WakeWordDetector.cooldown, in seconds
Cooldown == 2

(***************************************************************************)
(* Exact rationals                                                         *)
(***************************************************************************)
RECURSIVE Gcd(_, _)
Gcd(a, b) == IF b = 0 THEN a ELSE Gcd(b, a % b)

Rat(n, d) == LET g == Gcd(IF n < 0 THEN -n ELSE n, d)
             IN  [n |-> n \div g, d |-> d \div g]

RInt(i) == [n |-> i, d |-> 1]
RAdd(a, b) == Rat(a.n * b.d + b.n * a.d, a.d * b.d)
RMul(a, b) == Rat(a.n * b.n, a.d * b.d)
RDiv(a, b) == Rat(a.n * b.d, a.d * b.n)
RLt(a, b) == a.n * b.d < b.n * a.d
RLe(a, b) == a.n * b.d <= b.n * a.d
RMax(a, b) == IF RLt(a, b) THEN b ELSE a
RMin(a, b) == IF RLt(b, a) THEN b ELSE a

(***************************************************************************)
(* AudioConfig                                                             *)
(***************************************************************************)
\* the values AudioConfig takes when the configuration file names none
DefaultConfig ==
    [sample_rate        |-> 16000,
     chunk_size         |-> 1024,
     silence_threshold  |-> RInt(50),
     silence_duration   |-> Rat(3, 10),
     max_recording_time |-> RInt(10)]

\* a configuration file with short durations: 0.1 s of silence ends an
\* utterance (1.5625 frames), 0.25 s is the longest recording (3.90625 frames)
ShortConfig ==
    [sample_rate        |-> 16000,
     chunk_size         |-> 1024,
     silence_threshold  |-> RInt(50),
     silence_duration   |-> Rat(1, 10),
     max_recording_time |-> Rat(1, 4)]

\* a configuration file with shorter durations still: 0.05 s of silence ends
\* an utterance (0.78125 frames, so the first silent frame does)
BriefConfig ==
    [sample_rate        |-> 16000,
     chunk_size         |-> 1024,
     silence_threshold  |-> RInt(50),
     silence_duration   |-> Rat(1, 20),
     max_recording_time |-> Rat(1, 4)]

(***************************************************************************)
(* Frames (chunks of signed 16-bit samples)                                *)
(***************************************************************************)
EmptyFrame == << >>
ZeroFrame  == <<0, 0>>
QuietFrame == <<5, -5>>
MidFrame   == <<60, -60>>
LoudFrame  == <<800, -800>>
\* a frame of another length whose samples differ: RMS 500
MixedFrame == <<600, -800, 0, 0>>

RECURSIVE SumSq(_)
SumSq(chunk) == IF chunk = << >> THEN 0
                ELSE Head(chunk) * Head(chunk) + SumSq(Tail(chunk))

RECURSIVE MaxAbs(_)
MaxAbs(chunk) ==
    IF chunk = << >> THEN 0
    ELSE LET h == IF Head(chunk) < 0 THEN -Head(chunk) ELSE Head(chunk)
             t == MaxAbs(Tail(chunk))
         IN  IF h > t THEN h ELSE t

\* the integer r in lo..hi with r*r <= q < (r+1)*(r+1), by bisection
RECURSIVE ISqrt(_, _, _)
ISqrt(q, lo, hi) ==
    IF lo >= hi THEN lo
    ELSE LET mid == (lo + hi + 1) \div 2
         IN  IF mid * mid <= q THEN ISqrt(q, mid, hi) ELSE ISqrt(q, lo, mid - 1)

\* a slip: the empty chunk gets the full-scale value instead of 0
RmsEmptyIsFullScale(chunk) ==
    IF Len(chunk) = 0 THEN 32768
    ELSE ISqrt(SumSq(chunk) \div Len(chunk), 0, MaxAbs(chunk))

\* rms of add_chunk: 0 for an empty chunk, else sqrt(mean(chunk ** 2))
Rms(chunk) ==
    IF Len(chunk) = 0 THEN 0
    ELSE ISqrt(SumSq(chunk) \div Len(chunk), 0, MaxAbs(chunk))

(***************************************************************************)
(* collections.deque(maxlen=...)                                           *)
(***************************************************************************)
\* a slip: a full deque keeps what it has and drops what is new
DequeExtendKeepsOldest(q, xs, maxlen) ==
    LET all == q \o xs
    IN  IF Len(all) <= maxlen THEN all
        ELSE SubSeq(all, 1, maxlen)

\* deque.extend / deque.append: the oldest elements fall out at the left
DequeExtend(q, xs, maxlen) ==
    LET all == q \o xs
    IN  IF Len(all) <= maxlen THEN all
        ELSE SubSeq(all, Len(all) - maxlen + 1, Len(all))

RECURSIVE SeqSum(_)
SeqSum(s) == IF s = << >> THEN 0 ELSE Head(s) + SeqSum(Tail(s))

\* np.mean of a non-empty sequence of RMS values
Mean(s) == Rat(SeqSum(s), Len(s))

(***************************************************************************)
(* AudioBuffer                                                             *)
(***************************************************************************)
\* AudioBuffer.__init__
NewAudioBuffer(max_size) ==
    [max_size         |-> max_size,
     buffer           |-> << >>,
     is_recording     |-> FALSE,
     silence_counter  |-> 0,
     speech_detected  |-> FALSE,
     recent_rms       |-> << >>,
     background_rms   |-> RInt(0),
     recording_chunks |-> 0]

\* a slip: line 85 without its speech_detected guard
TrackRmsDuringSpeech(b, rms) ==
    LET recent == DequeExtend(b.recent_rms, <<rms>>, RecentRmsMaxLen)
    IN  [b EXCEPT !.recent_rms = recent,
                  !.background_rms =
                      IF Len(recent) >= MinRmsForBackground
                      THEN Mean(recent) ELSE @]

\* add_chunk, lines 81-86: push the RMS, re-estimate the background noise
\* while no speech is detected
TrackRms(b, rms) ==
    LET recent == DequeExtend(b.recent_rms, <<rms>>, RecentRmsMaxLen)
    IN  [b EXCEPT !.recent_rms = recent,
                  !.background_rms =
                      IF ~b.speech_detected /\ Len(recent) >= MinRmsForBackground
                      THEN Mean(recent) ELSE @]

\* a slip: 0.3 for the 3.0 of line 95
SpeechThresholdSlip(b, cfg) ==
    IF RLt(RInt(0), b.background_rms)
    THEN RMax(RMul(cfg.silence_threshold, RInt(2)),
              RAdd(b.background_rms, RInt(30)))
    ELSE RMul(cfg.silence_threshold, Rat(3, 10))

\* add_chunk, lines 89-96: the threshold that starts an utterance
SpeechThreshold(b, cfg) ==
    IF RLt(RInt(0), b.background_rms)
    THEN RMax(RMul(cfg.silence_threshold, RInt(2)),
              RAdd(b.background_rms, RInt(30)))
    ELSE RMul(cfg.silence_threshold, RInt(3))

\* add_chunk, lines 89-96: the threshold below which a frame is silence
SilenceThreshold(b, cfg) ==
    IF RLt(RInt(0), b.background_rms)
    THEN RMin(cfg.silence_threshold, RAdd(b.background_rms, RInt(10)))
    ELSE RMul(cfg.silence_threshold, Rat(1, 2))

\* a slip: the ratio of line 122 upside down
SilenceThresholdChunksInverted(cfg) ==
    RDiv(RMul(cfg.silence_duration, RInt(cfg.chunk_size)), RInt(cfg.sample_rate))

\* config.silence_duration * config.sample_rate / config.chunk_size
SilenceThresholdChunks(cfg) ==
    RDiv(RMul(cfg.silence_duration, RInt(cfg.sample_rate)), RInt(cfg.chunk_size))

\* config.max_recording_time * config.sample_rate / config.chunk_size
MaxRecordingChunks(cfg) ==
    RDiv(RMul(cfg.max_recording_time, RInt(cfg.sample_rate)), RInt(cfg.chunk_size))

\* a slip: line 119 without its speech_detected guard, so that silence is
\* counted before any speech
TransitionUnguardedSilence(b, rms, cfg) ==
    IF ~b.speech_detected /\ RLt(SpeechThreshold(b, cfg), RInt(rms))
    THEN [ab |-> [b EXCEPT !.speech_detected = TRUE, !.is_recording = TRUE,
                           !.silence_counter = 0, !.recording_chunks = 0],
          ret |-> FALSE, branch |-> "onset"]
    ELSE IF RLe(RInt(rms), SilenceThreshold(b, cfg))
    THEN IF RLt(SilenceThresholdChunks(cfg), RInt(b.silence_counter + 1))
         THEN [ab |-> [b EXCEPT !.silence_counter = @ + 1, !.is_recording = FALSE],
               ret |-> TRUE, branch |-> "silence"]
         ELSE [ab |-> [b EXCEPT !.silence_counter = @ + 1],
               ret |-> FALSE, branch |-> "silence"]
    ELSE IF b.speech_detected /\ RLt(SilenceThreshold(b, cfg), RInt(rms))
    THEN [ab |-> [b EXCEPT !.silence_counter = 0], ret |-> FALSE, branch |-> "speech"]
    ELSE [ab |-> b, ret |-> FALSE, branch |-> "none"]

\* a slip: line 133 compares with the speech threshold, so that a frame
\* between the two thresholds leaves silence_counter alone
TransitionNoHysteresis(b, rms, cfg) ==
    IF ~b.speech_detected /\ RLt(SpeechThreshold(b, cfg), RInt(rms))
    THEN [ab |-> [b EXCEPT !.speech_detected = TRUE, !.is_recording = TRUE,
                           !.silence_counter = 0, !.recording_chunks = 0],
          ret |-> FALSE, branch |-> "onset"]
    ELSE IF b.speech_detected /\ RLe(RInt(rms), SilenceThreshold(b, cfg))
    THEN IF RLt(SilenceThresholdChunks(cfg), RInt(b.silence_counter + 1))
         THEN [ab |-> [b EXCEPT !.silence_counter = @ + 1, !.is_recording = FALSE],
               ret |-> TRUE, branch |-> "silence"]
         ELSE [ab |-> [b EXCEPT !.silence_counter = @ + 1],
               ret |-> FALSE, branch |-> "silence"]
    ELSE IF b.speech_detected /\ RLt(SpeechThreshold(b, cfg), RInt(rms))
    THEN [ab |-> [b EXCEPT !.silence_counter = 0], ret |-> FALSE, branch |-> "speech"]
    ELSE [ab |-> b, ret |-> FALSE, branch |-> "none"]

\* add_chunk, lines 111-134: onset, silence counting, continued speech.
\* ret is TRUE when line 131 returns True; branch names the branch taken.
Transition(b, rms, cfg) ==
    IF ~b.speech_detected /\ RLt(SpeechThreshold(b, cfg), RInt(rms))
    THEN [ab |-> [b EXCEPT !.speech_detected = TRUE, !.is_recording = TRUE,
                           !.silence_counter = 0, !.recording_chunks = 0],
          ret |-> FALSE, branch |-> "onset"]
    ELSE IF b.speech_detected /\ RLe(RInt(rms), SilenceThreshold(b, cfg))
    THEN IF RLt(SilenceThresholdChunks(cfg), RInt(b.silence_counter + 1))
         THEN [ab |-> [b EXCEPT !.silence_counter = @ + 1, !.is_recording = FALSE],
               ret |-> TRUE, branch |-> "silence"]
         ELSE [ab |-> [b EXCEPT !.silence_counter = @ + 1],
               ret |-> FALSE, branch |-> "silence"]
    ELSE IF b.speech_detected /\ RLt(SilenceThreshold(b, cfg), RInt(rms))
    THEN [ab |-> [b EXCEPT !.silence_counter = 0], ret |-> FALSE, branch |-> "speech"]
    ELSE [ab |-> b, ret |-> FALSE, branch |-> "none"]

\* a slip: line 141 compares the count before line 138 has incremented it
RecordChunkLateCheck(b, chunk, cfg) ==
    IF b.is_recording
    THEN IF RLt(MaxRecordingChunks(cfg), RInt(b.recording_chunks))
         THEN [ab |-> [b EXCEPT !.recording_chunks = @ + 1, !.is_recording = FALSE],
               ret |-> TRUE, appended |-> FALSE]
         ELSE [ab |-> [b EXCEPT !.recording_chunks = @ + 1,
                                !.buffer = DequeExtend(@, chunk, b.max_size)],
               ret |-> FALSE, appended |-> TRUE]
    ELSE [ab |-> b, ret |-> FALSE, appended |-> FALSE]

\* a slip: lines 141-144, the maximum-recording-time guard, left out
RecordChunkNoGuard(b, chunk, cfg) ==
    IF b.is_recording
    THEN [ab |-> [b EXCEPT !.recording_chunks = @ + 1,
                           !.buffer = DequeExtend(@, chunk, b.max_size)],
          ret |-> FALSE, appended |-> TRUE]
    ELSE [ab |-> b, ret |-> FALSE, appended |-> FALSE]

\* a slip: line 146 outside the is_recording test of line 137
RecordChunkUnguarded(b, chunk, cfg) ==
    IF b.is_recording
    THEN IF RLt(MaxRecordingChunks(cfg), RInt(b.recording_chunks + 1))
         THEN [ab |-> [b EXCEPT !.recording_chunks = @ + 1, !.is_recording = FALSE],
               ret |-> TRUE, appended |-> FALSE]
         ELSE [ab |-> [b EXCEPT !.recording_chunks = @ + 1,
                                !.buffer = DequeExtend(@, chunk, b.max_size)],
               ret |-> FALSE, appended |-> TRUE]
    ELSE [ab |-> [b EXCEPT !.buffer = DequeExtend(@, chunk, b.max_size)],
          ret |-> FALSE, appended |-> TRUE]

\* add_chunk, lines 136-148: the maximum-recording-time guard and the append.
\* appended is TRUE when line 146 extends the buffer.
RecordChunk(b, chunk, cfg) ==
    IF b.is_recording
    THEN IF RLt(MaxRecordingChunks(cfg), RInt(b.recording_chunks + 1))
         THEN [ab |-> [b EXCEPT !.recording_chunks = @ + 1, !.is_recording = FALSE],
               ret |-> TRUE, appended |-> FALSE]
         ELSE [ab |-> [b EXCEPT !.recording_chunks = @ + 1,
                                !.buffer = DequeExtend(@, chunk, b.max_size)],
               ret |-> FALSE, appended |-> TRUE]
    ELSE [ab |-> b, ret |-> FALSE, appended |-> FALSE]

\* AudioBuffer.add_chunk, run by one thread with no other thread in the buffer
AddChunk(b, chunk, cfg) ==
    LET rms == Rms(chunk)
        t == Transition(TrackRms(b, rms), rms, cfg)
        r == RecordChunk(t.ab, chunk, cfg)
    IN  IF t.ret
        THEN [ab |-> t.ab, ret |-> TRUE, branch |-> t.branch, appended |-> FALSE]
        ELSE [ab |-> r.ab, ret |-> r.ret, branch |-> t.branch, appended |-> r.appended]

\* a slip: line 159, is_recording = False, left out
GetAudioDataKeepsRecording(b) ==
    IF b.buffer = << >>
    THEN [ab |-> b, data |-> << >>]
    ELSE [ab |-> [b EXCEPT !.buffer = << >>, !.speech_detected = FALSE,
                           !.silence_counter = 0, !.recording_chunks = 0],
          data |-> b.buffer]

\* a slip: line 156, buffer.clear(), left out
GetAudioDataNoClear(b) ==
    IF b.buffer = << >>
    THEN [ab |-> b, data |-> << >>]
    ELSE [ab |-> [b EXCEPT !.speech_detected = FALSE,
                           !.is_recording = FALSE, !.silence_counter = 0,
                           !.recording_chunks = 0],
          data |-> b.buffer]

\* AudioBuffer.get_audio_data, run by one thread with no other thread in the
\* buffer: an empty buffer returns at line 153, before any field is reset
GetAudioData(b) ==
    IF b.buffer = << >>
    THEN [ab |-> b, data |-> << >>]
    ELSE [ab |-> [b EXCEPT !.buffer = << >>, !.speech_detected = FALSE,
                           !.is_recording = FALSE, !.silence_counter = 0,
                           !.recording_chunks = 0],
          data |-> b.buffer]

(***************************************************************************)
(* Text.  A str is a sequence of one-character strings.                    *)
(***************************************************************************)
\* str.lower() on one character
LowerChar(c) ==
    CASE c = "A" -> "a" [] c = "B" -> "b" [] c = "C" -> "c" [] c = "D" -> "d"
      [] c = "E" -> "e" [] c = "F" -> "f" [] c = "G" -> "g" [] c = "H" -> "h"
      [] c = "I" -> "i" [] c = "J" -> "j" [] c = "K" -> "k" [] c = "L" -> "l"
      [] c = "M" -> "m" [] c = "N" -> "n" [] c = "O" -> "o" [] c = "P" -> "p"
      [] c = "Q" -> "q" [] c = "R" -> "r" [] c = "S" -> "s" [] c = "T" -> "t"
      [] c = "U" -> "u" [] c = "V" -> "v" [] c = "W" -> "w" [] c = "X" -> "x"
      [] c = "Y" -> "y" [] c = "Z" -> "z" [] OTHER -> c

\* str.lower()
ToLower(s) == [i \in 1..Len(s) |-> LowerChar(s[i])]

\* sub in s
Contains(sub, s) ==
    \E i \in 0..(Len(s) - Len(sub)) : SubSeq(s, i + 1, i + Len(sub)) = sub

IsSpace(c) == c \in {" ", "\t", "\n"}

\* str.strip()
RECURSIVE LStrip(_)
LStrip(s) == IF s # << >> /\ IsSpace(Head(s)) THEN LStrip(Tail(s)) ELSE s

RECURSIVE RStrip(_)
RStrip(s) ==
    IF s # << >> /\ IsSpace(s[Len(s)]) THEN RStrip(SubSeq(s, 1, Len(s) - 1)) ELSE s

Strip(s) == RStrip(LStrip(s))

TextEmpty == << >>
TextBlank == <<" ">>
TextOk == <<"O", "k">>
TextJarvis == <<"J", "a", "r", "v", "i", "s">>
TextHeyJarvis == <<"h", "e", "y", " ", "j", "a", "r", "v", "i", "s", " ">>

(***************************************************************************)
(* WakeWordDetector.  Times are exact rationals, in seconds.               *)
(***************************************************************************)
\* ConfigManager.get_wake_words when the configuration file names none
DefaultWakeWords == << <<"j", "a", "r", "v", "i", "s">>,
                       <<"h", "e", "y", " ", "j", "a", "r", "v", "i", "s">> >>

NewWakeWordDetector(wake_words) ==
    [wake_words |-> [i \in 1..Len(wake_words) |-> ToLower(wake_words[i])],
     last_detection |-> RInt(0),
     cooldown |-> RInt(Cooldown)]

RSub(a, b) == Rat(a.n * b.d - b.n * a.d, a.d * b.d)

\* text holds one of the wake words, case ignored (lines 273, 280-281)
HasWakeWord(d, text) ==
    \E i \in 1..Len(d.wake_words) : Contains(d.wake_words[i], ToLower(text))

\* a detect() that never looks at the time of the last detection
DetectNoCooldown(d, text, current_time) ==
    IF text = << >> THEN [wd |-> d, ret |-> FALSE]
    ELSE IF HasWakeWord(d, text)
    THEN [wd |-> [d EXCEPT !.last_detection = current_time], ret |-> TRUE]
    ELSE [wd |-> d, ret |-> FALSE]

\* a detect() that stamps last_detection on every call past the empty-text
\* check
DetectStampsEveryCall(d, text, current_time) ==
    IF text = << >> THEN [wd |-> d, ret |-> FALSE]
    ELSE IF RLt(RSub(current_time, d.last_detection), d.cooldown)
    THEN [wd |-> [d EXCEPT !.last_detection = current_time], ret |-> FALSE]
    ELSE IF HasWakeWord(d, text)
    THEN [wd |-> [d EXCEPT !.last_detection = current_time], ret |-> TRUE]
    ELSE [wd |-> [d EXCEPT !.last_detection = current_time], ret |-> FALSE]

\* WakeWordDetector.detect(text), time.time() returning current_time
Detect(d, text, current_time) ==
    IF text = << >> THEN [wd |-> d, ret |-> FALSE]
    ELSE IF RLt(RSub(current_time, d.last_detection), d.cooldown)
    THEN [wd |-> d, ret |-> FALSE]
    ELSE IF HasWakeWord(d, text)
    THEN [wd |-> [d EXCEPT !.last_detection = current_time], ret |-> TRUE]
    ELSE [wd |-> d, ret |-> FALSE]

(***************************************************************************)
(* One AudioBuffer used by one thread: any sequence of add_chunk and       *)
(* get_audio_data calls (as listen_and_transcribe, debug_audio.py and the  *)
(* tests use it).                                                          *)
(***************************************************************************)
VARIABLES
    config,     \* the AudioConfig of the session
    frames,     \* the frames the audio source can deliver in this scenario
    max_calls,  \* how many calls the scenario makes
    ab,         \* the AudioBuffer
    calls,      \* history: the calls made so far, oldest first
    last,       \* the last call made and what it returned
    is_processing, \* JarvisSTT.is_processing
    cb,         \* the audio callback thread: where it is in _audio_callback
    workers,    \* the _process_audio threads: where each is
    fed,        \* history: how many frames the callback was given
    utt,        \* history: how many speech onsets there were
    tasks,      \* history: for each thread started, the utterance it was started for
    dropped,    \* history: the utterances, with samples in the buffer and no
                \* thread started for them, that line 391 refused
    transcripts, \* history: what was passed to stt_engine.transcribe
    wd,         \* the WakeWordDetector
    now,        \* what time.time() returned last
    dcalls,     \* history: the detect() calls made so far, oldest first
    is_listening, \* JarvisSTT.is_listening
    stream,     \* JarvisSTT.stream, and how many streams were opened and closed
    ctl,        \* the thread that calls start_listening and stop_listening
    stt_available, \* stt_engine.available
    callbacks,  \* which of on_speech_callback, on_wake_word_callback are set
    lt,         \* a listen_and_transcribe call: its locals and where it is
    assistant,  \* the JarvisAssistant, and the threads running its methods
    tts         \* the JarvisTTS with its AudioPlayer, and their threads

bufvars == <<config, frames, max_calls, ab, calls, last>>
contvars == <<is_processing, cb, workers, fed, utt, tasks, dropped, transcripts>>
wakevars == <<wd, now, dcalls>>
sessvars == <<is_listening, stream, ctl, stt_available, callbacks>>
appvars == <<assistant, tts>>
restvars == <<wakevars, sessvars, lt, appvars>>
vars == <<config, frames, max_calls, ab, calls, last,
          is_processing, cb, workers, fed, utt, tasks, dropped, transcripts,
          wd, now, dcalls, is_listening, stream, ctl, stt_available, callbacks, lt,
          assistant, tts>>

NoCall == [op |-> "none"]

CbIdle == [pc |-> "idle", chunk |-> << >>, rms |-> 0, tmp |-> 0]
NoWorker == [pc |-> "none", data |-> << >>, tag |-> 0]

\* JarvisSTT.__init__: nothing in flight, no thread started
ContIdle ==
    /\ is_processing = FALSE
    /\ cb = CbIdle
    /\ workers = [w \in 1..MaxWorkers |-> NoWorker]
    /\ fed = 0
    /\ utt = 0
    /\ tasks = << >>
    /\ dropped = {}
    /\ transcripts = << >>

\* JarvisSTT.__init__, line 307: a detector that has detected nothing
WakeIdle ==
    /\ wd = NewWakeWordDetector(DefaultWakeWords)
    /\ now = RInt(StartTime)
    /\ dcalls = << >>

NoStream == [state |-> "none", opened |-> 0, closed |-> 0]
CtlIdle == [pc |-> "idle", n |-> 0, op |-> "none", noop |-> FALSE, raised |-> FALSE]
BothCallbacks == [speech |-> TRUE, wake |-> TRUE]
NoListen ==
    [pc |-> "none", n |-> 0, temp_buffer |-> NewAudioBuffer(MaxSize),
     start_time |-> RInt(0), transcription |-> << >>, data |-> << >>,
     engine_in |-> << >>, left |-> "", result |-> << >>,
     outcome |-> "none", frames_read |-> 0, read_errors |-> 0]

\* a thread that is not inside a method of the JarvisAssistant
NoSpeaker ==
    [pc |-> "none", text |-> << >>, entry_active |-> FALSE, branch |-> "none",
     handler |-> "none", caught |-> FALSE]

\* JarvisAssistant.__init__, lines 21-24, before start()
NoAssistant ==
    [is_active |-> FALSE, is_listening |-> FALSE, prevent_feedback |-> FALSE,
     is_speaking |-> FALSE, th |-> [w \in 1..MaxWorkers |-> NoSpeaker],
     main |-> "none", n |-> 0, pcalls |-> << >>]

\* no _speak_blocking call
NoSpeech == [pc |-> "none", text |-> 0, by |-> "none", handed |-> FALSE]

\* JarvisTTS.__init__ and AudioPlayer.__init__: nothing queued, no thread
NoTts ==
    [non_blocking_tts |-> FALSE, is_speech_thread_running |-> FALSE,
     speech_queue |-> << >>, speech_thread |-> "none", sb |-> NoSpeech,
     client |-> [pc |-> "idle", n |-> 0], texts |-> 0,
     is_playing |-> FALSE, playback_queue |-> << >>, playback_thread |-> "none",
     playing |-> 0, played |-> {}, failed |-> {}, ended |-> << >>,
     stopped_at |-> 0]

AppIdle == assistant = NoAssistant /\ tts = NoTts

\* JarvisSTT.__init__, lines 308-328: not listening, no stream; the engine
\* loaded, both callbacks set (as test_stt.py sets them)
SessIdle ==
    /\ is_listening = FALSE
    /\ stream = NoStream
    /\ ctl = CtlIdle
    /\ stt_available = TRUE
    /\ callbacks = BothCallbacks

RestIdle == WakeIdle /\ SessIdle /\ lt = NoListen /\ AppIdle

\* the scenarios: a configuration and the frames the source delivers
Scenarios ==
    { [config |-> DefaultConfig, frames |-> {LoudFrame, QuietFrame},
       max_calls |-> MaxCallsDefault],
      [config |-> ShortConfig,
       frames |-> {EmptyFrame, ZeroFrame, MidFrame, LoudFrame, MixedFrame},
       max_calls |-> MaxCallsShort] }

Init ==
    \E s \in Scenarios :
        /\ config = s.config
        /\ frames = s.frames
        /\ max_calls = s.max_calls
        /\ ab = NewAudioBuffer(MaxSize)
        /\ calls = << >>
        /\ last = NoCall
        /\ ContIdle
        /\ RestIdle

\* a call of ab.add_chunk(chunk, config)
DoAddChunk ==
    /\ Len(calls) < max_calls
    /\ \E chunk \in frames :
        LET r == AddChunk(ab, chunk, config)
            c == [op |-> "add_chunk", chunk |-> chunk, ret |-> r.ret,
                  branch |-> r.branch, appended |-> r.appended]
        IN  /\ ab' = r.ab
            /\ calls' = Append(calls, c)
            /\ last' = c
    /\ UNCHANGED <<config, frames, max_calls>>
    /\ UNCHANGED contvars
    /\ UNCHANGED restvars

\* a call of ab.get_audio_data()
DoGetAudioData ==
    /\ Len(calls) < max_calls
    /\ LET r == GetAudioData(ab)
           c == [op |-> "get_audio_data", data |-> r.data]
       IN  /\ ab' = r.ab
           /\ calls' = Append(calls, c)
           /\ last' = c
    /\ UNCHANGED <<config, frames, max_calls>>
    /\ UNCHANGED contvars
    /\ UNCHANGED restvars

Next == DoAddChunk \/ DoGetAudioData

Spec == Init /\ [][Next]_vars

(***************************************************************************)
(* Continuous mode: JarvisSTT._audio_callback on the audio thread and the  *)
(* _process_audio threads it starts.  No lock guards is_processing or the  *)
(* AudioBuffer, so the threads interleave between any two accesses of a    *)
(* shared field: each step below makes at most one such access.            *)
(* recent_rms and background_rms are touched by the audio thread only.     *)
(***************************************************************************)
Live(w) == workers[w].pc # "none"
NoneLive == \A w \in 1..MaxWorkers : ~Live(w)
FreeSlot == CHOOSE w \in 1..MaxWorkers : ~Live(w) /\ \A v \in 1..(w - 1) : Live(v)

NumTasksFor(u) == Len(SelectSeq(tasks, LAMBDA t : t = u))

\* a slip: the callback joins the thread under way before it goes on
AfterAddChunkJoins(ret) ==
    /\ ~is_processing
    /\ cb' = CbIdle
    /\ IF ret
       THEN /\ ~(\A w \in 1..MaxWorkers : Live(w))
            /\ workers' = [workers EXCEPT ![FreeSlot] = [NoWorker EXCEPT !.pc = "l399"]]
            /\ tasks' = Append(tasks, utt)
            /\ UNCHANGED dropped
       ELSE /\ UNCHANGED <<dropped, workers, tasks>>

\* _audio_callback, lines 384-393, after add_chunk returned ret: start a
\* thread when the utterance is complete and nothing is being processed
AfterAddChunk(ret) ==
    /\ cb' = CbIdle
    /\ IF ret /\ ~is_processing
       THEN /\ ~(\A w \in 1..MaxWorkers : Live(w))
            /\ workers' = [workers EXCEPT ![FreeSlot] = [NoWorker EXCEPT !.pc = "l399"]]
            /\ tasks' = Append(tasks, utt)
            /\ UNCHANGED dropped
       ELSE /\ dropped' = IF ret /\ NumTasksFor(utt) = 0 /\ ab.buffer # << >>
                              THEN dropped \cup {utt} ELSE dropped
            /\ UNCHANGED <<workers, tasks>>

\* a frame arrives while no _process_audio thread exists: the whole of
\* _audio_callback runs with nothing to interleave with
CbWhole ==
    /\ cb.pc = "idle" /\ NoneLive
    /\ fed < MaxFramesCont
    /\ \E chunk \in frames :
        LET r == AddChunk(ab, chunk, config)
        IN  /\ ab' = r.ab
            /\ utt' = IF r.branch = "onset" THEN utt + 1 ELSE utt
            /\ cb' = CbIdle
            /\ IF r.ret /\ ~is_processing
               THEN /\ workers' = [workers EXCEPT ![1] = [NoWorker EXCEPT !.pc = "l399"]]
                    /\ tasks' = Append(tasks, utt')
                    /\ UNCHANGED dropped
               ELSE /\ dropped' = IF r.ret /\ NumTasksFor(utt') = 0 /\ r.ab.buffer # << >>
                                  THEN dropped \cup {utt'} ELSE dropped
                    /\ UNCHANGED <<workers, tasks>>
    /\ fed' = fed + 1
    /\ UNCHANGED <<is_processing, transcripts>>
    /\ UNCHANGED <<config, frames, max_calls, calls, last>>
    /\ UNCHANGED restvars

\* a frame arrives while a _process_audio thread exists: add_chunk lines
\* 70-96 (one read of speech_detected, at line 85)
CbDeliver ==
    /\ cb.pc = "idle" /\ ~NoneLive
    /\ fed < MaxFramesCont
    /\ \E chunk \in frames :
        /\ ab' = TrackRms(ab, Rms(chunk))
        /\ cb' = [pc |-> "l112", chunk |-> chunk, rms |-> Rms(chunk), tmp |-> 0]
    /\ fed' = fed + 1
    /\ UNCHANGED <<is_processing, workers, utt, tasks, dropped, transcripts>>
    /\ UNCHANGED <<config, frames, max_calls, calls, last>>
    /\ UNCHANGED restvars

CbGoto(pc) == cb' = [cb EXCEPT !.pc = pc]

\* add_chunk, the conditions of lines 112, 119, 128, 133, 137 and 141:
\* each reads one shared field and branches
CbBranch ==
    /\ \/ /\ cb.pc = "l112"
          /\ IF ~ab.speech_detected /\ RLt(SpeechThreshold(ab, config), RInt(cb.rms))
             THEN CbGoto("l114") ELSE CbGoto("l119")
       \/ /\ cb.pc = "l119"
          /\ IF ab.speech_detected /\ RLe(RInt(cb.rms), SilenceThreshold(ab, config))
             THEN CbGoto("l120") ELSE CbGoto("l133")
       \/ /\ cb.pc = "l128"
          /\ IF RLt(SilenceThresholdChunks(config), RInt(ab.silence_counter))
             THEN CbGoto("l130") ELSE CbGoto("l137")
       \/ /\ cb.pc = "l133"
          /\ IF ab.speech_detected /\ RLt(SilenceThreshold(ab, config), RInt(cb.rms))
             THEN CbGoto("l134") ELSE CbGoto("l137")
       \/ /\ cb.pc = "l141"
          /\ IF RLt(MaxRecordingChunks(config), RInt(ab.recording_chunks))
             THEN CbGoto("l143") ELSE CbGoto("l146")
    /\ UNCHANGED <<ab, is_processing, workers, fed, utt, tasks, dropped, transcripts>>
    /\ UNCHANGED <<config, frames, max_calls, calls, last>>
    /\ UNCHANGED restvars

\* add_chunk, lines 114-117 and 134: the stores of the onset branch and of
\* the continued-speech branch, one field at a time
CbStore ==
    /\ \/ /\ cb.pc = "l114"
          /\ ab' = [ab EXCEPT !.speech_detected = TRUE]
          /\ utt' = utt + 1
          /\ CbGoto("l115")
       \/ /\ cb.pc = "l115"
          /\ ab' = [ab EXCEPT !.is_recording = TRUE]
          /\ utt' = utt
          /\ CbGoto("l116")
       \/ /\ cb.pc = "l116"
          /\ ab' = [ab EXCEPT !.silence_counter = 0]
          /\ utt' = utt
          /\ CbGoto("l117")
       \/ /\ cb.pc = "l117"
          /\ ab' = [ab EXCEPT !.recording_chunks = 0]
          /\ utt' = utt
          /\ CbGoto("l137")
       \/ /\ cb.pc = "l134"
          /\ ab' = [ab EXCEPT !.silence_counter = 0]
          /\ utt' = utt
          /\ CbGoto("l137")
    /\ UNCHANGED <<is_processing, workers, fed, tasks, dropped, transcripts>>
    /\ UNCHANGED <<config, frames, max_calls, calls, last>>
    /\ UNCHANGED restvars

\* add_chunk, lines 120 and 138: x += 1 loads the field, then stores the sum
CbIncrement ==
    /\ \/ /\ cb.pc = "l120"
          /\ cb' = [cb EXCEPT !.pc = "l120w", !.tmp = ab.silence_counter]
          /\ ab' = ab
       \/ /\ cb.pc = "l120w"
          /\ ab' = [ab EXCEPT !.silence_counter = cb.tmp + 1]
          /\ CbGoto("l128")
       \/ /\ cb.pc = "l138"
          /\ cb' = [cb EXCEPT !.pc = "l138w", !.tmp = ab.recording_chunks]
          /\ ab' = ab
       \/ /\ cb.pc = "l138w"
          /\ ab' = [ab EXCEPT !.recording_chunks = cb.tmp + 1]
          /\ CbGoto("l141")
    /\ UNCHANGED <<is_processing, workers, fed, utt, tasks, dropped, transcripts>>
    /\ UNCHANGED <<config, frames, max_calls, calls, last>>
    /\ UNCHANGED restvars

\* add_chunk, line 137: not recording returns False at line 148
CbL137 ==
    /\ cb.pc = "l137"
    /\ IF ab.is_recording
       THEN CbGoto("l138")
       ELSE cb' = [cb EXCEPT !.pc = "l384", !.tmp = 0]
    /\ UNCHANGED <<ab, is_processing, workers, fed, utt, tasks, dropped, transcripts>>
    /\ UNCHANGED <<config, frames, max_calls, calls, last>>
    /\ UNCHANGED restvars

\* add_chunk, lines 130-131 and 143-144: is_recording = False, return True
CbComplete ==
    /\ cb.pc \in {"l130", "l143"}
    /\ ab' = [ab EXCEPT !.is_recording = FALSE]
    /\ cb' = [cb EXCEPT !.pc = "l384", !.tmp = 1]
    /\ UNCHANGED <<is_processing, workers, fed, utt, tasks, dropped, transcripts>>
    /\ UNCHANGED <<config, frames, max_calls, calls, last>>
    /\ UNCHANGED restvars

\* add_chunk, lines 146-148: extend the buffer, return False
CbL146 ==
    /\ cb.pc = "l146"
    /\ ab' = [ab EXCEPT !.buffer = DequeExtend(@, cb.chunk, ab.max_size)]
    /\ cb' = [cb EXCEPT !.pc = "l384", !.tmp = 0]
    /\ UNCHANGED <<is_processing, workers, fed, utt, tasks, dropped, transcripts>>
    /\ UNCHANGED <<config, frames, max_calls, calls, last>>
    /\ UNCHANGED restvars

\* _audio_callback, lines 384-393 (cb.tmp = 1: add_chunk returned True)
CbL384 ==
    /\ cb.pc = "l384"
    /\ AfterAddChunk(cb.tmp = 1)
    /\ UNCHANGED <<ab, is_processing, fed, utt, transcripts>>
    /\ UNCHANGED <<config, frames, max_calls, calls, last>>
    /\ UNCHANGED restvars

WGoto(w, pc) == workers' = [workers EXCEPT ![w].pc = pc]

\* _process_audio, lines 399-401: leave when something is being processed
WL399 ==
    \E w \in 1..MaxWorkers :
        /\ workers[w].pc = "l399"
        /\ IF is_processing
           THEN workers' = [workers EXCEPT ![w] = NoWorker]
           ELSE WGoto(w, "l403")
        /\ UNCHANGED <<ab, is_processing, cb, fed, utt, tasks, dropped, transcripts>>
        /\ UNCHANGED <<config, frames, max_calls, calls, last>>
        /\ UNCHANGED restvars

\* _process_audio, line 403: is_processing = True
WL403 ==
    \E w \in 1..MaxWorkers :
        /\ workers[w].pc = "l403"
        /\ is_processing' = TRUE
        /\ WGoto(w, "l152")
        /\ UNCHANGED <<ab, cb, fed, utt, tasks, dropped, transcripts>>
        /\ UNCHANGED <<config, frames, max_calls, calls, last>>
        /\ UNCHANGED restvars

\* get_audio_data, lines 152-155: an empty buffer returns an empty array at
\* once; otherwise the buffer is copied
WL152 ==
    \E w \in 1..MaxWorkers :
        /\ \/ /\ workers[w].pc = "l152"
              /\ IF ab.buffer = << >> THEN WGoto(w, "l410") ELSE WGoto(w, "l155")
           \/ /\ workers[w].pc = "l155"
              /\ workers' = [workers EXCEPT ![w] =
                                [pc |-> "l156", data |-> ab.buffer, tag |-> utt]]
        /\ UNCHANGED <<ab, is_processing, cb, fed, utt, tasks, dropped, transcripts>>
        /\ UNCHANGED <<config, frames, max_calls, calls, last>>
        /\ UNCHANGED restvars

\* get_audio_data, lines 156-160: clear the buffer, reset the fields, one
\* store at a time
WReset ==
    \E w \in 1..MaxWorkers :
        /\ \/ /\ workers[w].pc = "l156"
              /\ ab' = [ab EXCEPT !.buffer = << >>]
              /\ WGoto(w, "l157")
           \/ /\ workers[w].pc = "l157"
              /\ ab' = [ab EXCEPT !.speech_detected = FALSE]
              /\ WGoto(w, "l158")
           \/ /\ workers[w].pc = "l158"
              /\ ab' = [ab EXCEPT !.is_recording = FALSE]
              /\ WGoto(w, "l159")
           \/ /\ workers[w].pc = "l159"
              /\ ab' = [ab EXCEPT !.silence_counter = 0]
              /\ WGoto(w, "l160")
           \/ /\ workers[w].pc = "l160"
              /\ ab' = [ab EXCEPT !.recording_chunks = 0]
              /\ WGoto(w, "l410")
        /\ UNCHANGED <<is_processing, cb, fed, utt, tasks, dropped, transcripts>>
        /\ UNCHANGED <<config, frames, max_calls, calls, last>>
        /\ UNCHANGED restvars

\* _process_audio, lines 410-427: non-empty audio goes to the engine
WL410 ==
    \E w \in 1..MaxWorkers :
        /\ workers[w].pc = "l410"
        /\ transcripts' = IF Len(workers[w].data) > 0
                          THEN Append(transcripts,
                                      [utt |-> workers[w].tag, data |-> workers[w].data])
                          ELSE transcripts
        /\ WGoto(w, "l430")
        /\ UNCHANGED <<ab, is_processing, cb, fed, utt, tasks, dropped>>
        /\ UNCHANGED <<config, frames, max_calls, calls, last>>
        /\ UNCHANGED restvars

\* _process_audio, line 430: is_processing = False, and the thread ends
WL430 ==
    \E w \in 1..MaxWorkers :
        /\ workers[w].pc = "l430"
        /\ is_processing' = FALSE
        /\ workers' = [workers EXCEPT ![w] = NoWorker]
        /\ UNCHANGED <<ab, cb, fed, utt, tasks, dropped, transcripts>>
        /\ UNCHANGED <<config, frames, max_calls, calls, last>>
        /\ UNCHANGED restvars

InitCont ==
    /\ config = BriefConfig
    /\ frames = {LoudFrame, QuietFrame}
    /\ max_calls = 0
    /\ ab = NewAudioBuffer(MaxSize)
    /\ calls = << >>
    /\ last = NoCall
    /\ ContIdle
    /\ RestIdle

NextCont ==
    \/ CbWhole \/ CbDeliver \/ CbBranch \/ CbStore \/ CbIncrement
    \/ CbL137 \/ CbComplete \/ CbL146 \/ CbL384
    \/ WL399 \/ WL403 \/ WL152 \/ WReset \/ WL410 \/ WL430

SpecCont == InitCont /\ [][NextCont]_vars

(***************************************************************************)
(* One WakeWordDetector: any sequence of detect() calls, the clock moving  *)
(* between them (time.time() is the wall clock: it may also step back).    *)
(***************************************************************************)
\* the texts detect() is given
DetectTexts == {TextEmpty, TextOk, TextJarvis, TextHeyJarvis}

\* by how much time.time() differs from one call to the next
ClockSteps == {Rat(-1, 2), RInt(0), Rat(1, 2), Rat(3, 2), RInt(2)}

\* a call of wd.detect(text)
DoDetect ==
    /\ Len(dcalls) < MaxDetectCalls
    /\ \E text \in DetectTexts, dt \in ClockSteps :
        LET t == RAdd(now, dt)
            r == Detect(wd, text, t)
        IN  /\ now' = t
            /\ wd' = r.wd
            /\ dcalls' = Append(dcalls, [text |-> text, time |-> t, ret |-> r.ret])
    /\ UNCHANGED bufvars
    /\ UNCHANGED contvars
    /\ UNCHANGED <<sessvars, lt, appvars>>

InitWake ==
    /\ config = DefaultConfig
    /\ frames = {}
    /\ max_calls = 0
    /\ ab = NewAudioBuffer(MaxSize)
    /\ calls = << >>
    /\ last = NoCall
    /\ ContIdle
    /\ RestIdle

NextWake == DoDetect

SpecWake == InitWake /\ [][NextWake]_vars

(***************************************************************************)
(* JarvisSTT continuous mode with start_listening and stop_listening: the  *)
(* thread that starts and stops, the audio callback thread of the stream,  *)
(* and the _process_audio threads, down to the callbacks they invoke.      *)
(* is_listening is written by the starting/stopping thread and read by the *)
(* audio callback: each step makes one access of it.  add_chunk and        *)
(* get_audio_data are single steps here; SpecCont has their interleavings. *)
(* stream.stop_stream() (PortAudio Pa_StopStream) returns once the         *)
(* callback is not running and will not be called again.                   *)
(***************************************************************************)
\* "Whisper not available", line 187
TextNotAvailable ==
    <<"W", "h", "i", "s", "p", "e", "r", " ", "n", "o", "t", " ",
      "a", "v", "a", "i", "l", "a", "b", "l", "e">>

\* what self.model.transcribe hands back as result["text"]
EngineTexts == {TextBlank, TextOk, TextHeyJarvis}

\* WhisperSTT.transcribe(audio_data, config): the texts it can return, each
\* with how it came about
Transcribe(available, audio_data) ==
    IF ~available
    THEN {[text |-> TextNotAvailable, outcome |-> "unavailable"]}
    ELSE IF Len(audio_data) = 0
    THEN {[text |-> << >>, outcome |-> "empty"]}
    ELSE {[text |-> << >>, outcome |-> "raised"]}
         \cup {[text |-> Strip(t),
                outcome |-> IF Strip(t) = << >> THEN "empty" ELSE "text"] :
               t \in EngineTexts}

\* a _process_audio thread: its locals, and what it has invoked so far
NoTask ==
    [pc |-> "none", data |-> << >>, text |-> << >>, outcome |-> "none",
     consulted |-> FALSE, detected |-> FALSE, fired |-> << >>, late |-> FALSE]

\* by how much time.time() has moved when a thread reaches detect()
SessClockSteps == {RInt(0), RInt(Cooldown)}

sessfixed == <<config, frames, max_calls, calls, last, utt, tasks, dropped,
               transcripts, dcalls, stt_available, callbacks, lt, assistant, tts>>

\* stop_listening has returned and start_listening was not called since
SessionStopped == ~is_listening /\ ctl.pc = "idle"

\* start_listening with the check of line 340 left out
NeverAlreadyListening == FALSE

\* start_listening, line 340
AlreadyListening == is_listening

\* stop_listening, line 361
NotListening == ~is_listening

\* a stop_stream() that returns while the callback is still running
StreamNeverWaits == TRUE

\* stream.stop_stream(), line 367: returns once the callback has returned
StreamQuiescent == cb.pc = "idle"

\* start_listening: audio.open either opens a stream, whose callback starts
\* to be called, or raises, and start_listening lets the exception through
\* (ctl.raised)
StartListening ==
    /\ ctl.pc = "idle" /\ ctl.n < MaxCtlCalls
    /\ IF AlreadyListening
       THEN /\ ctl' = [ctl EXCEPT !.n = @ + 1, !.op = "start", !.noop = TRUE,
                                  !.raised = FALSE]
            /\ UNCHANGED <<is_listening, stream>>
       ELSE /\ is_listening' = TRUE
            /\ \/ /\ stream' = [stream EXCEPT !.state = "active", !.opened = @ + 1]
                  /\ ctl' = [ctl EXCEPT !.n = @ + 1, !.op = "start",
                                        !.noop = FALSE, !.raised = FALSE]
               \/ /\ UNCHANGED stream
                  /\ ctl' = [ctl EXCEPT !.n = @ + 1, !.op = "start",
                                        !.noop = FALSE, !.raised = TRUE]
    /\ UNCHANGED <<ab, is_processing, cb, workers, fed, wd, now>>
    /\ UNCHANGED sessfixed

\* stop_listening, lines 361-364
StopListening ==
    /\ ctl.pc = "idle" /\ ctl.n < MaxCtlCalls
    /\ IF NotListening
       THEN /\ ctl' = [ctl EXCEPT !.n = @ + 1, !.op = "stop", !.noop = TRUE,
                                  !.raised = FALSE]
            /\ UNCHANGED is_listening
       ELSE /\ is_listening' = FALSE
            /\ ctl' = [pc |-> IF stream.state # "none" THEN "l367" ELSE "idle",
                       n |-> ctl.n + 1, op |-> "stop", noop |-> FALSE,
                       raised |-> FALSE]
    /\ UNCHANGED <<ab, is_processing, cb, workers, fed, wd, now, stream>>
    /\ UNCHANGED sessfixed

\* stop_listening, lines 366-371: stop_stream, close, self.stream = None
StopStream ==
    /\ ctl.pc = "l367"
    /\ StreamQuiescent
    /\ stream' = [stream EXCEPT !.state = "none", !.closed = @ + 1]
    /\ ctl' = [ctl EXCEPT !.pc = "idle"]
    /\ UNCHANGED <<ab, is_processing, cb, workers, fed, wd, now, is_listening>>
    /\ UNCHANGED sessfixed

\* _audio_callback, lines 375-379: paComplete ends the calls of the callback
CallbackEnter ==
    /\ stream.state = "active" /\ cb.pc = "idle"
    /\ fed < MaxFramesSess
    /\ IF ~is_listening
       THEN /\ stream' = [stream EXCEPT !.state = "complete"]
            /\ UNCHANGED cb
       ELSE /\ \E chunk \in frames :
                  cb' = [pc |-> "l382", chunk |-> chunk, rms |-> 0, tmp |-> 0]
            /\ UNCHANGED stream
    /\ UNCHANGED <<ab, is_processing, workers, fed, wd, now, is_listening, ctl>>
    /\ UNCHANGED sessfixed

\* _audio_callback, lines 382-393
CallbackAddChunk ==
    /\ cb.pc = "l382"
    /\ LET r == AddChunk(ab, cb.chunk, config)
       IN  /\ ab' = r.ab
           /\ IF r.ret /\ ~is_processing
              THEN /\ ~(\A w \in 1..MaxWorkers : Live(w))
                   /\ workers' = [workers EXCEPT ![FreeSlot] = [NoTask EXCEPT !.pc = "l399"]]
              ELSE UNCHANGED workers
    /\ fed' = fed + 1
    /\ cb' = CbIdle
    /\ UNCHANGED <<is_processing, wd, now, is_listening, stream, ctl>>
    /\ UNCHANGED sessfixed

\* _process_audio, lines 399-403
ProcessAudioEnter ==
    \E w \in 1..MaxWorkers :
        /\ \/ /\ workers[w].pc = "l399"
              /\ IF is_processing
                 THEN workers' = [workers EXCEPT ![w] = NoTask]
                 ELSE WGoto(w, "l403")
              /\ UNCHANGED is_processing
           \/ /\ workers[w].pc = "l403"
              /\ is_processing' = TRUE
              /\ WGoto(w, "l408")
        /\ UNCHANGED <<ab, cb, fed, wd, now, is_listening, stream, ctl>>
        /\ UNCHANGED sessfixed

\* _process_audio, lines 408-410
ProcessAudioGet ==
    \E w \in 1..MaxWorkers :
        /\ workers[w].pc = "l408"
        /\ LET r == GetAudioData(ab)
           IN  /\ ab' = r.ab
               /\ workers' = [workers EXCEPT ![w].data = r.data,
                                  ![w].pc = IF Len(r.data) > 0 THEN "l412" ELSE "l430"]
        /\ UNCHANGED <<is_processing, cb, fed, wd, now, is_listening, stream, ctl>>
        /\ UNCHANGED sessfixed

\* _process_audio, lines 412-414
ProcessAudioTranscribe ==
    \E w \in 1..MaxWorkers :
        /\ workers[w].pc = "l412"
        /\ \E o \in Transcribe(stt_available, workers[w].data) :
              workers' = [workers EXCEPT ![w].text = o.text, ![w].outcome = o.outcome,
                              ![w].pc = IF o.text # << >> THEN "l418" ELSE "l430"]
        /\ UNCHANGED <<ab, is_processing, cb, fed, wd, now, is_listening, stream, ctl>>
        /\ UNCHANGED sessfixed

\* _process_audio, lines 418-419
ProcessAudioDetect ==
    \E w \in 1..MaxWorkers :
        /\ workers[w].pc = "l418"
        /\ \E dt \in SessClockSteps :
              LET t == RAdd(now, dt)
                  r == Detect(wd, workers[w].text, t)
              IN  /\ now' = t
                  /\ wd' = r.wd
                  /\ workers' = [workers EXCEPT ![w].consulted = TRUE,
                                     ![w].detected = r.ret,
                                     ![w].pc = IF r.ret /\ callbacks.wake
                                               THEN "l420" ELSE "l423"]
        /\ UNCHANGED <<ab, is_processing, cb, fed, is_listening, stream, ctl>>
        /\ UNCHANGED sessfixed

\* _process_audio, line 420: on_wake_word_callback() returns, or raises into
\* the except clause of line 426
ProcessAudioWakeCallback ==
    \E w \in 1..MaxWorkers :
        /\ workers[w].pc = "l420"
        /\ \E next \in {"l423", "l430"} :
              workers' = [workers EXCEPT
                              ![w].fired = Append(@, [cb |-> "wake", text |-> << >>]),
                              ![w].late = @ \/ SessionStopped,
                              ![w].pc = next]
        /\ UNCHANGED <<ab, is_processing, cb, fed, wd, now, is_listening, stream, ctl>>
        /\ UNCHANGED sessfixed

\* _process_audio, lines 423-427: on_speech_callback(transcription)
ProcessAudioSpeechCallback ==
    \E w \in 1..MaxWorkers :
        /\ workers[w].pc = "l423"
        /\ IF callbacks.speech
           THEN workers' = [workers EXCEPT
                                ![w].fired = Append(@, [cb |-> "speech",
                                                        text |-> workers[w].text]),
                                ![w].late = @ \/ SessionStopped,
                                ![w].pc = "l430"]
           ELSE WGoto(w, "l430")
        /\ UNCHANGED <<ab, is_processing, cb, fed, wd, now, is_listening, stream, ctl>>
        /\ UNCHANGED sessfixed

\* a slip: line 430 in an else clause, not run after an exception
ProcessAudioNoFinally ==
    \E w \in 1..MaxWorkers :
        /\ workers[w].pc = "l430"
        /\ is_processing' = IF workers[w].outcome = "raised" THEN is_processing ELSE FALSE
        /\ workers' = [workers EXCEPT ![w] = NoTask]
        /\ UNCHANGED <<ab, cb, fed, wd, now, is_listening, stream, ctl>>
        /\ UNCHANGED sessfixed

\* _process_audio, line 430
ProcessAudioFinally ==
    \E w \in 1..MaxWorkers :
        /\ workers[w].pc = "l430"
        /\ is_processing' = FALSE
        /\ workers' = [workers EXCEPT ![w] = NoTask]
        /\ UNCHANGED <<ab, cb, fed, wd, now, is_listening, stream, ctl>>
        /\ UNCHANGED sessfixed

InitSess ==
    /\ config = BriefConfig
    /\ frames = {LoudFrame, QuietFrame}
    /\ max_calls = 0
    /\ ab = NewAudioBuffer(MaxSize)
    /\ calls = << >>
    /\ last = NoCall
    /\ is_processing = FALSE
    /\ cb = CbIdle
    /\ workers = [w \in 1..MaxWorkers |-> NoTask]
    /\ fed = 0 /\ utt = 0 /\ tasks = << >> /\ dropped = {} /\ transcripts = << >>
    /\ WakeIdle
    /\ is_listening = FALSE
    /\ stream = NoStream
    /\ ctl = CtlIdle
    /\ stt_available \in BOOLEAN
    /\ callbacks \in {BothCallbacks, [speech |-> TRUE, wake |-> FALSE]}
    /\ lt = NoListen
    /\ AppIdle

NextSess ==
    \/ StartListening \/ StopListening \/ StopStream
    \/ CallbackEnter \/ CallbackAddChunk
    \/ ProcessAudioEnter \/ ProcessAudioGet \/ ProcessAudioTranscribe
    \/ ProcessAudioDetect \/ ProcessAudioWakeCallback
    \/ ProcessAudioSpeechCallback \/ ProcessAudioFinally

SpecSess == InitSess /\ [][NextSess]_vars

(***************************************************************************)
(* Single-shot mode: listen_and_transcribe(timeout), run by one thread.    *)
(* lt.engine_in is what stt_engine.transcribe was given in this call,      *)
(* lt.left says how the loop of line 460 was left, lt.outcome how the      *)
(* engine came to its text, lt.frames_read and lt.read_errors how many     *)
(* stream.read calls returned a frame and how many raised.                 *)
(***************************************************************************)
\* by how much time.time() has moved between two evaluations of line 460
ListenClockSteps == {Rat(1, 2), RInt(1)}

listenfixed == <<config, frames, max_calls, ab, calls, last, is_processing, cb,
                 workers, fed, utt, tasks, dropped, transcripts, wd, dcalls,
                 is_listening, stream, ctl, stt_available, callbacks,
                 assistant, tts>>

\* lines 441-458: a new AudioBuffer, the stream opened (or audio.open raises
\* and line 498 returns ""), the start time taken
ListenBegin ==
    /\ lt.pc \in {"none", "done"}
    /\ lt.n < MaxListenCalls
    /\ \/ lt' = [NoListen EXCEPT !.pc = "l460", !.n = lt.n + 1, !.start_time = now]
       \/ lt' = [NoListen EXCEPT !.pc = "done", !.n = lt.n + 1, !.left = "error"]
    /\ UNCHANGED now
    /\ UNCHANGED listenfixed

\* line 460: time.time() - start_time < timeout
LoopCondition(start_time, current_time, timeout) ==
    RLt(RSub(current_time, start_time), timeout)

\* line 460
ListenLoop ==
    /\ lt.pc = "l460"
    /\ \E dt \in ListenClockSteps :
          LET t == RAdd(now, dt)
          IN  /\ now' = t
              /\ lt' = IF LoopCondition(lt.start_time, t, RInt(ListenTimeout))
                       THEN [lt EXCEPT !.pc = "l463"]
                       ELSE [lt EXCEPT !.pc = "l488", !.left = "timeout"]
    /\ UNCHANGED listenfixed

\* lines 462-485: stream.read raises and the loop goes on, or a frame is
\* read and given to add_chunk; a complete utterance is retrieved,
\* transcribed when it has samples, and the loop is left
ListenRead ==
    /\ lt.pc = "l463"
    /\ \/ lt' = [lt EXCEPT !.pc = "l460", !.read_errors = @ + 1]
       \/ \E chunk \in frames :
            LET r == AddChunk(lt.temp_buffer, chunk, config)
                g == GetAudioData(r.ab)
            IN  IF ~r.ret
                THEN lt' = [lt EXCEPT !.temp_buffer = r.ab, !.pc = "l460",
                                      !.frames_read = @ + 1]
                ELSE IF Len(g.data) = 0
                THEN lt' = [lt EXCEPT !.temp_buffer = g.ab, !.pc = "l488",
                                      !.left = "complete", !.frames_read = @ + 1]
                ELSE \E o \in Transcribe(stt_available, g.data) :
                        lt' = [lt EXCEPT !.temp_buffer = g.ab, !.data = g.data,
                                         !.engine_in = Append(@, g.data),
                                         !.transcription = o.text,
                                         !.outcome = o.outcome,
                                         !.frames_read = @ + 1,
                                         !.pc = "l488", !.left = "complete"]
    /\ UNCHANGED now
    /\ UNCHANGED listenfixed

\* lines 487-494
ListenReturn ==
    /\ lt.pc = "l488"
    /\ lt' = [lt EXCEPT !.pc = "done", !.result = Strip(lt.transcription)]
    /\ UNCHANGED now
    /\ UNCHANGED listenfixed

InitListen ==
    /\ config = BriefConfig
    /\ frames = {LoudFrame, QuietFrame}
    /\ max_calls = 0
    /\ ab = NewAudioBuffer(MaxSize)
    /\ calls = << >>
    /\ last = NoCall
    /\ ContIdle
    /\ WakeIdle
    /\ is_listening = FALSE
    /\ stream = NoStream
    /\ ctl = CtlIdle
    /\ stt_available \in BOOLEAN
    /\ callbacks = BothCallbacks
    /\ lt = NoListen
    /\ AppIdle

NextListen == ListenBegin \/ ListenLoop \/ ListenRead \/ ListenReturn

SpecListen == InitListen /\ [][NextListen]_vars

(***************************************************************************)
(* Continuous mode with a speaker who never pauses: every frame is loud    *)
(* and max_recording_time cuts the speech into utterances (SpecTalk)       *)
(***************************************************************************)
\* a configuration file with 0.1 s as the longest recording (1.5625 frames)
TalkConfig ==
    [sample_rate        |-> 16000,
     chunk_size         |-> 1024,
     silence_threshold  |-> RInt(50),
     silence_duration   |-> Rat(1, 20),
     max_recording_time |-> Rat(1, 10)]

InitTalk ==
    /\ config = TalkConfig
    /\ frames = {LoudFrame}
    /\ max_calls = 0
    /\ ab = NewAudioBuffer(MaxSize)
    /\ calls = << >>
    /\ last = NoCall
    /\ ContIdle
    /\ RestIdle

NextTalk == NextCont

SpecTalk == InitTalk /\ [][NextTalk]_vars

(***************************************************************************)
(* A session built from a configuration file: AudioConfig() reads the      *)
(* "audio" section, the buffer is then fed frames (SpecCfg)                *)
(***************************************************************************)
\* audio_config.get(key, default)
DictGet(d, key, default) == IF key \in DOMAIN d THEN d[key] ELSE default

\* AudioConfig.__init__: every value is taken from the file as it is, the
\* default stands in for a missing key, and nothing is rejected
AudioConfig(audio_config) ==
    [sample_rate        |-> DictGet(audio_config, "sample_rate", 16000),
     chunk_size         |-> DictGet(audio_config, "chunk_size", 1024),
     silence_threshold  |-> DictGet(audio_config, "silence_threshold", RInt(50)),
     silence_duration   |-> DictGet(audio_config, "silence_duration", Rat(3, 10)),
     max_recording_time |-> DictGet(audio_config, "max_recording_time", RInt(10))]

\* "audio" sections of a configuration file: any JSON numbers
AudioSections ==
    { [silence_threshold |-> st, silence_duration |-> sd, max_recording_time |-> mr] :
        st \in {RInt(-5), RInt(0), Rat(1, 100), RInt(1), RInt(50), RInt(1000)},
        sd \in {RInt(0), Rat(1, 10)},
        mr \in {RInt(-1), Rat(1, 4)} }

\* JarvisSTT.__init__, lines 303-306: the configuration and a new buffer
InitCfg ==
    /\ \E audio_config \in AudioSections : config = AudioConfig(audio_config)
    /\ frames = {ZeroFrame, QuietFrame, LoudFrame}
    /\ max_calls = MaxCallsCfg
    /\ ab = NewAudioBuffer(MaxSize)
    /\ calls = << >>
    /\ last = NoCall
    /\ ContIdle
    /\ RestIdle

NextCfg == DoAddChunk

SpecCfg == InitCfg /\ [][NextCfg]_vars

(***************************************************************************)
(* The JarvisAssistant (jarvis_assistant.py) with its JarvisCommands.      *)
(* on_speech_received is the speech callback of the JarvisSTT: it runs on  *)
(* the _process_audio thread that transcribed (stt.py line 423), and the   *)
(* check of is_processing lets two of these threads be past line 403 at    *)
(* once (SpecCont reaches TwoTranscribing), so two calls of it can          *)
(* overlap.  Each step below makes one access of the shared fields.  The   *)
(* audio callback is left out: stop_stream() finds it idle.                *)
(***************************************************************************)
\* two _process_audio threads handing audio to the engine at once
TwoTranscribing ==
    \E v, w \in 1..MaxWorkers :
        /\ v # w
        /\ workers[v].pc = "l410" /\ workers[v].data # << >>
        /\ workers[w].pc = "l410" /\ workers[w].data # << >>

TextDots == <<".", ".", ".">>
TextTime == <<"W", "h", "a", "t", " ", "t", "i", "m", "e", " ", "i", "s", " ", "i", "t">>
TextShutdown == <<"S", "h", "u", "t", "d", "o", "w", "n">>

\* the transcriptions the callback is given
AssistTexts == {TextOk, TextDots, TextJarvis, TextTime, TextShutdown}

\* s.endswith(suffix)
EndsWith(s, suffix) ==
    /\ Len(s) >= Len(suffix)
    /\ SubSeq(s, Len(s) - Len(suffix) + 1, Len(s)) = suffix

\* on_speech_received, line 47: the list of meaningless transcriptions
Meaningless ==
    {<<".">>,
     <<".", ".">>,
     <<".", ".", ".">>,
     <<".", " ", ".">>,
     <<".", " ", ".", " ", ".">>,
     <<"s", "e", "r", "v", "i", "c", "e", ".">>,
     <<"I", " ", "d", "o", "n", "'", "t", " ", "k", "n", "o", "w", " ", "w", "h", "a", "t", " ", "t", "o", " ", "d", "o", ".">>}

\* on_speech_received, lines 46-47
Ignored(text) ==
    LET text_clean == Strip(text)
    IN  text_clean = << >> \/ Len(text_clean) < 3 \/ text_clean \in Meaningless

\* on_speech_received, lines 51-55
AssistWakeWords == {<<"j", "a", "r", "v", "i", "s">>,
                    <<"h", "e", "y", " ", "j", "a", "r", "v", "i", "s">>}

ContainsWakeWord(text) ==
    \E wake_word \in AssistWakeWords : Contains(wake_word, ToLower(Strip(text)))

\* process_command, lines 128-135: the pattern and the handler's name
DeactivationCommands ==
    {[pattern |-> <<"s", "t", "o", "p", " ", "l", "i", "s", "t", "e", "n", "i", "n", "g">>, handler |-> "stop_listening"],
     [pattern |-> <<"g", "o", " ", "t", "o", " ", "s", "l", "e", "e", "p">>, handler |-> "stop_listening"],
     [pattern |-> <<"s", "h", "u", "t", "d", "o", "w", "n">>, handler |-> "shutdown"],
     [pattern |-> <<"s", "h", "u", "t", "d", "o", "w", "n", " ", "j", "a", "r", "v", "i", "s">>, handler |-> "shutdown"],
     [pattern |-> <<"g", "o", "o", "d", "b", "y", "e">>, handler |-> "goodbye"],
     [pattern |-> <<"g", "o", "o", "d", "b", "y", "e", " ", "j", "a", "r", "v", "i", "s">>, handler |-> "goodbye"]}

\* process_command, lines 125-163: the handler a text is given to.  A suffix
\* matches the patterns of one handler only, so the order of the dict does
\* not matter; every handler of command_patterns, and
\* handle_unknown_command, only speaks ("speak")
Dispatch(text) ==
    LET text_lower == Strip(ToLower(text))
        hit == {d \in DeactivationCommands :
                    text_lower = d.pattern \/ EndsWith(text_lower, d.pattern)}
    IN  IF hit # {} THEN (CHOOSE d \in hit : TRUE).handler ELSE "speak"

\* what a step of this specification leaves alone
assistfixed == <<config, frames, max_calls, ab, calls, last, is_processing, cb,
                 workers, fed, utt, tasks, dropped, transcripts, wd, now, dcalls,
                 ctl, stt_available, callbacks, lt, tts>>

TGoto(w, pc) == assistant' = [assistant EXCEPT !.th[w].pc = pc]

\* _process_audio, line 423, into on_speech_received, lines 41-49: a thread
\* brings a transcription; a meaningless one is dropped at once
OnSpeechReceived ==
    \E w \in 1..MaxWorkers, text \in AssistTexts :
        /\ assistant.th[w].pc = "none"
        /\ assistant.main # "none"
        /\ assistant.n < MaxDeliveries
        /\ assistant' = [assistant EXCEPT
               !.n = @ + 1,
               !.th[w] = [NoSpeaker EXCEPT
                              !.text = text,
                              !.entry_active = assistant.is_active,
                              !.pc = IF Ignored(text) THEN "ret" ELSE "l59",
                              !.branch = IF Ignored(text) THEN "ignored" ELSE "none"]]
        /\ UNCHANGED <<is_listening, stream>>
        /\ UNCHANGED assistfixed

\* on_speech_received, line 59: is_active is read
WakeCheck ==
    \E w \in 1..MaxWorkers :
        /\ assistant.th[w].pc = "l59"
        /\ TGoto(w, IF ContainsWakeWord(assistant.th[w].text) /\ ~assistant.is_active
                    THEN "l61" ELSE "l69")
        /\ UNCHANGED <<is_listening, stream>>
        /\ UNCHANGED assistfixed

\* on_speech_received, lines 61-62: activate, then greet
Activate ==
    \E w \in 1..MaxWorkers :
        /\ assistant.th[w].pc = "l61"
        /\ assistant' = [assistant EXCEPT !.is_active = TRUE,
                                          !.th[w].branch = "wake",
                                          !.th[w].pc = "l111"]
        /\ UNCHANGED <<is_listening, stream>>
        /\ UNCHANGED assistfixed

\* on_speech_received, line 69: is_active is read again
ActiveCheck ==
    \E w \in 1..MaxWorkers :
        /\ assistant.th[w].pc = "l69"
        /\ assistant' = [assistant EXCEPT
               !.th[w].pc = IF assistant.is_active THEN "l70" ELSE "ret",
               !.th[w].branch = IF assistant.is_active THEN "command" ELSE "inactive"]
        /\ UNCHANGED <<is_listening, stream>>
        /\ UNCHANGED assistfixed

\* on_speech_received, line 70: process_command(text) is called; it picks
\* the handler, and the handler first speaks
ProcessCommand ==
    \E w \in 1..MaxWorkers :
        /\ assistant.th[w].pc = "l70"
        /\ assistant' = [assistant EXCEPT
               !.pcalls = Append(@, [text |-> assistant.th[w].text,
                                     is_active |-> assistant.is_active,
                                     entry_active |-> assistant.th[w].entry_active]),
               !.th[w].handler = Dispatch(assistant.th[w].text),
               !.th[w].pc = "l111"]
        /\ UNCHANGED <<is_listening, stream>>
        /\ UNCHANGED assistfixed

\* speak_without_feedback, line 111
SpeakWithoutFeedback ==
    \E w \in 1..MaxWorkers :
        /\ assistant.th[w].pc = "l111"
        /\ TGoto(w, IF assistant.prevent_feedback /\ assistant.is_listening
                    THEN "l114" ELSE "l128")
        /\ UNCHANGED <<is_listening, stream>>
        /\ UNCHANGED assistfixed

\* speak_without_feedback, line 114: stt.stop_listening(), stt.py lines
\* 361-364
PauseListening ==
    \E w \in 1..MaxWorkers :
        /\ assistant.th[w].pc = "l114"
        /\ IF ~is_listening
           THEN TGoto(w, "l115") /\ UNCHANGED is_listening
           ELSE is_listening' = FALSE /\ TGoto(w, "l366")
        /\ UNCHANGED stream
        /\ UNCHANGED assistfixed

\* stt.stop_listening(), stt.py lines 366-371: whatever stream self.stream
\* holds by now is stopped and closed
PauseStream ==
    \E w \in 1..MaxWorkers :
        /\ assistant.th[w].pc = "l366"
        /\ stream' = IF stream.state # "none"
                     THEN [stream EXCEPT !.state = "none", !.closed = @ + 1]
                     ELSE stream
        /\ TGoto(w, "l115")
        /\ UNCHANGED is_listening
        /\ UNCHANGED assistfixed

\* speak_without_feedback, lines 115-118: is_speaking is set and
\* tts.speak_direct(text) is entered
SpeakDirectBegin ==
    \E w \in 1..MaxWorkers :
        /\ assistant.th[w].pc = "l115"
        /\ assistant' = [assistant EXCEPT !.is_speaking = TRUE, !.th[w].pc = "l118"]
        /\ UNCHANGED <<is_listening, stream>>
        /\ UNCHANGED assistfixed

\* speak_without_feedback, lines 118-121: tts.speak_direct(text) returns
\* (_fallback_system_say catches what "say" raises), and the sleep passes
SpeakDirectEnd ==
    \E w \in 1..MaxWorkers :
        /\ assistant.th[w].pc = "l118"
        /\ TGoto(w, "l122")
        /\ UNCHANGED <<is_listening, stream>>
        /\ UNCHANGED assistfixed

\* where a thread goes when start_listening raises: process_command catches
\* what a handler raises, once, and calls speak_error (commands.py lines
\* 147-150); anything else goes up to _process_audio, line 426
Raised(t) ==
    IF t.branch = "command" /\ ~t.caught
    THEN [t EXCEPT !.caught = TRUE, !.handler = "speak", !.pc = "l111"]
    ELSE [t EXCEPT !.pc = "ret"]

\* speak_without_feedback, lines 122-124: stt.start_listening() if the
\* assistant still listens (stt.py lines 338-354: audio.open opens a stream
\* or raises)
ResumeListening ==
    \E w \in 1..MaxWorkers :
        /\ assistant.th[w].pc = "l122"
        /\ IF ~assistant.is_listening \/ is_listening
           THEN TGoto(w, "l125") /\ UNCHANGED <<is_listening, stream>>
           ELSE /\ is_listening' = TRUE
                /\ \/ /\ stream' = [stream EXCEPT !.state = "active",
                                                  !.opened = @ + 1]
                      /\ TGoto(w, "l125")
                   \/ /\ UNCHANGED stream
                      /\ assistant' = [assistant EXCEPT
                                           !.th[w] = Raised(assistant.th[w])]
        /\ UNCHANGED assistfixed

\* speak_without_feedback, line 125
SpeakingDone ==
    \E w \in 1..MaxWorkers :
        /\ assistant.th[w].pc = "l125"
        /\ assistant' = [assistant EXCEPT !.is_speaking = FALSE, !.th[w].pc = "l335"]
        /\ UNCHANGED <<is_listening, stream>>
        /\ UNCHANGED assistfixed

\* speak_without_feedback, line 128: tts.speak_direct(text) with the STT
\* left as it is
SpeakNormal ==
    \E w \in 1..MaxWorkers :
        /\ assistant.th[w].pc = "l128"
        /\ TGoto(w, "l335")
        /\ UNCHANGED <<is_listening, stream>>
        /\ UNCHANGED assistfixed

\* commands.py, lines 335-336, 342-344 and 349-350: what the handler does
\* once it has spoken
AfterSpeak ==
    \E w \in 1..MaxWorkers :
        /\ assistant.th[w].pc = "l335"
        /\ LET h == assistant.th[w].handler
           IN  assistant' = [assistant EXCEPT
                   !.is_active = IF h \in {"stop_listening", "shutdown", "goodbye"}
                                 THEN FALSE ELSE @,
                   !.is_listening = IF h = "shutdown" THEN FALSE ELSE @,
                   !.th[w].pc = "ret"]
        /\ UNCHANGED <<is_listening, stream>>
        /\ UNCHANGED assistfixed

\* on_speech_received returns, and the thread ends
SpeakerReturn ==
    \E w \in 1..MaxWorkers :
        /\ assistant.th[w].pc = "ret"
        /\ assistant' = [assistant EXCEPT !.th[w] = NoSpeaker]
        /\ UNCHANGED <<is_listening, stream>>
        /\ UNCHANGED assistfixed

\* JarvisAssistant.stop, lines 132-133, on the main thread (start, line 107)
AssistantStop ==
    /\ \/ /\ assistant.main = "running"
          /\ assistant' = [assistant EXCEPT !.is_listening = FALSE, !.main = "l133"]
          /\ UNCHANGED <<is_listening, stream>>
       \/ /\ assistant.main = "l133"
          /\ IF ~is_listening
             THEN assistant' = [assistant EXCEPT !.main = "stopped"]
                  /\ UNCHANGED is_listening
             ELSE assistant' = [assistant EXCEPT !.main = "l366"]
                  /\ is_listening' = FALSE
          /\ UNCHANGED stream
       \/ /\ assistant.main = "l366"
          /\ stream' = IF stream.state # "none"
                       THEN [stream EXCEPT !.state = "none", !.closed = @ + 1]
                       ELSE stream
          /\ assistant' = [assistant EXCEPT !.main = "stopped"]
          /\ UNCHANGED is_listening
    /\ UNCHANGED assistfixed

\* JarvisAssistant.start, lines 85-86, has run: the assistant listens, not
\* yet active, and the STT has its stream open
InitAssist ==
    /\ config = DefaultConfig
    /\ frames = {LoudFrame}
    /\ max_calls = 0
    /\ ab = NewAudioBuffer(MaxSize)
    /\ calls = << >>
    /\ last = NoCall
    /\ ContIdle
    /\ WakeIdle
    /\ is_listening = TRUE
    /\ stream = [state |-> "active", opened |-> 1, closed |-> 0]
    /\ ctl = CtlIdle
    /\ stt_available = TRUE
    /\ callbacks = [speech |-> TRUE, wake |-> FALSE]
    /\ lt = NoListen
    /\ \E prevent_feedback \in BOOLEAN :
          assistant = [NoAssistant EXCEPT !.is_listening = TRUE,
                                          !.prevent_feedback = prevent_feedback,
                                          !.main = "running"]
    /\ tts = NoTts

NextAssist ==
    \/ OnSpeechReceived \/ WakeCheck \/ Activate \/ ActiveCheck \/ ProcessCommand
    \/ SpeakWithoutFeedback \/ PauseListening \/ PauseStream
    \/ SpeakDirectBegin \/ SpeakDirectEnd \/ ResumeListening \/ SpeakingDone
    \/ SpeakNormal \/ AfterSpeak \/ SpeakerReturn \/ AssistantStop

SpecAssist == InitAssist /\ [][NextAssist]_vars

(***************************************************************************)
(* The JarvisTTS with its AudioPlayer (tts.py).  One client thread calls   *)
(* speak and stop_speaking; _speak_blocking runs on the client (blocking   *)
(* mode) or on the _speech_worker thread (non_blocking_tts); the audio is  *)
(* played by the _playback_worker thread.  A text, and the audio made of   *)
(* it, is its number in the order of the speak calls; None, the shutdown   *)
(* signal of both queues, is 0.  Each step makes one access of the shared  *)
(* fields and queues.                                                      *)
(***************************************************************************)
QNone == 0

\* a thread is alive from start() until its function returns
Alive(thread) == thread \notin {"none", "dead"}

ttsfixed == <<config, frames, max_calls, ab, calls, last, is_processing, cb,
              workers, fed, utt, tasks, dropped, transcripts, wd, now, dcalls,
              is_listening, stream, ctl, stt_available, callbacks, lt, assistant>>

\* speak, lines 401-408 and 414-416: the text (never empty here) is queued,
\* or spoken at once
Speak ==
    /\ tts.client.pc = "idle" /\ tts.client.n < MaxTtsCalls
    /\ LET text == tts.texts + 1
       IN  IF tts.non_blocking_tts
           THEN tts' = [tts EXCEPT !.texts = text,
                                   !.speech_queue = Append(@, text),
                                   !.client = [pc |-> "l410", n |-> @.n + 1]]
           ELSE tts' = [tts EXCEPT !.texts = text,
                                   !.sb = [pc |-> "l437", text |-> text,
                                           by |-> "client", handed |-> FALSE],
                                   !.client = [pc |-> "l416", n |-> @.n + 1]]
    /\ UNCHANGED ttsfixed

\* speak, lines 410-413: a worker thread is started if none is alive
SpeakStartWorker ==
    /\ tts.client.pc = "l410"
    /\ tts' = [tts EXCEPT !.speech_thread = IF Alive(@) THEN @ ELSE "l385",
                          !.client.pc = "idle"]
    /\ UNCHANGED ttsfixed

\* speak, line 416: _speak_blocking has returned to the client
SpeakReturn ==
    /\ tts.client.pc = "l416"
    /\ tts.sb.pc = "done" /\ tts.sb.by = "client"
    /\ tts' = [tts EXCEPT !.sb = NoSpeech, !.client.pc = "idle"]
    /\ UNCHANGED ttsfixed

\* stop_speaking, line 496: player.stop_playback(), lines 103-106
StopPlayback ==
    /\ tts.client.pc = "idle" /\ tts.client.n < MaxTtsCalls
    /\ tts' = [tts EXCEPT !.playback_queue = Append(@, QNone),
                          !.is_playing = FALSE,
                          !.stopped_at = tts.texts,
                          !.client = [pc |-> "l499", n |-> @.n + 1]]
    /\ UNCHANGED ttsfixed

\* stop_speaking, lines 499-501
StopSpeaking ==
    /\ tts.client.pc = "l499"
    /\ IF tts.non_blocking_tts /\ tts.is_speech_thread_running
       THEN tts' = [tts EXCEPT !.is_speech_thread_running = FALSE,
                               !.speech_queue = Append(@, QNone),
                               !.client.pc = "idle"]
       ELSE tts' = [tts EXCEPT !.client.pc = "idle"]
    /\ UNCHANGED ttsfixed

\* _speech_worker, line 385
SpeechWorkerBegin ==
    /\ tts.speech_thread = "l385"
    /\ tts' = [tts EXCEPT !.is_speech_thread_running = TRUE,
                          !.speech_thread = "l386"]
    /\ UNCHANGED ttsfixed

\* _speech_worker, line 386: the loop condition; the thread ends when it is
\* false
SpeechWorkerLoop ==
    /\ tts.speech_thread = "l386"
    /\ tts' = [tts EXCEPT !.speech_thread =
                              IF tts.is_speech_thread_running THEN "l388" ELSE "dead"]
    /\ UNCHANGED ttsfixed

\* _speech_worker, lines 388-393 and 396-397: get with a timeout; None ends
\* the thread, a text is given to _speak_blocking
SpeechWorkerGet ==
    /\ tts.speech_thread = "l388"
    /\ IF tts.speech_queue = << >>
       THEN tts' = [tts EXCEPT !.speech_thread = "l386"]
       ELSE LET speech_item == Head(tts.speech_queue)
            IN  IF speech_item = QNone
                THEN tts' = [tts EXCEPT !.speech_queue = Tail(@),
                                        !.speech_thread = "dead"]
                ELSE tts' = [tts EXCEPT !.speech_queue = Tail(@),
                                        !.speech_thread = "l393",
                                        !.sb = [pc |-> "l437", text |-> speech_item,
                                                by |-> "worker", handed |-> FALSE]]
    /\ UNCHANGED ttsfixed

\* _speech_worker, lines 393-394: _speak_blocking has returned; task_done
SpeechWorkerDone ==
    /\ tts.speech_thread = "l393"
    /\ tts.sb.pc = "done" /\ tts.sb.by = "worker"
    /\ tts' = [tts EXCEPT !.sb = NoSpeech, !.speech_thread = "l386"]
    /\ UNCHANGED ttsfixed

\* _speak_blocking, lines 431-443: the start callback, then the engine
\* makes audio of the text, or nothing (or raises into line 451)
Synthesize ==
    /\ tts.sb.pc = "l437"
    /\ \E audio \in BOOLEAN :
          tts' = [tts EXCEPT !.sb.pc = IF audio THEN "l445" ELSE "l455"]
    /\ UNCHANGED ttsfixed

\* play_audio_data, lines 58-61, called at line 445
PlayAudioData ==
    /\ tts.sb.pc = "l445"
    /\ tts' = [tts EXCEPT !.playback_queue = Append(@, tts.sb.text),
                          !.sb.handed = TRUE,
                          !.sb.pc = "l63"]
    /\ UNCHANGED ttsfixed

\* play_audio_data, lines 63-65: a playback thread is started if none is
\* alive
StartPlaybackWorker ==
    /\ tts.sb.pc = "l63"
    /\ tts' = [tts EXCEPT !.playback_thread = IF Alive(@) THEN @ ELSE "l71",
                          !.sb.pc = "l448"]
    /\ UNCHANGED ttsfixed

\* the loop of lines 448-449 goes on while it reads is_playing true
WaitsForPlayback == tts.is_playing

\* _speak_blocking, lines 448-449: the wait is over
PlaybackWaitEnds ==
    /\ tts.sb.pc = "l448"
    /\ ~WaitsForPlayback
    /\ tts' = [tts EXCEPT !.sb.pc = "l455"]
    /\ UNCHANGED ttsfixed

\* _speak_blocking, lines 454-457: the end callback
SpeechEndCallback ==
    /\ tts.sb.pc = "l455"
    /\ tts' = [tts EXCEPT
           !.ended = Append(@, [text |-> tts.sb.text, handed |-> tts.sb.handed,
                                played |-> tts.sb.text \in tts.played,
                                failed |-> tts.sb.text \in tts.failed]),
           !.sb.pc = "done"]
    /\ UNCHANGED ttsfixed

\* _playback_worker, lines 71-73: get (with an empty queue the thread keeps
\* waiting); None ends the thread
PlaybackGet ==
    /\ tts.playback_thread = "l71"
    /\ tts.playback_queue # << >>
    /\ LET audio_data == Head(tts.playback_queue)
       IN  tts' = [tts EXCEPT !.playback_queue = Tail(@),
                              !.playing = audio_data,
                              !.playback_thread =
                                  IF audio_data = QNone THEN "dead" ELSE "l75"]
    /\ UNCHANGED ttsfixed

\* _playback_worker, line 75
PlaybackBegins ==
    /\ tts.playback_thread = "l75"
    /\ tts' = [tts EXCEPT !.is_playing = TRUE, !.playback_thread = "l78"]
    /\ UNCHANGED ttsfixed

\* _playback_worker, lines 78-92: the audio is played to its end, or
\* audio.open or stream.write raises (lines 99-101)
PlaybackPlays ==
    /\ tts.playback_thread = "l78"
    /\ \/ tts' = [tts EXCEPT !.played = @ \cup {tts.playing},
                             !.playback_thread = "l94"]
       \/ tts' = [tts EXCEPT !.failed = @ \cup {tts.playing},
                             !.is_playing = FALSE,
                             !.playback_thread = "l71"]
    /\ UNCHANGED ttsfixed

\* _playback_worker, lines 94-95
PlaybackEnds ==
    /\ tts.playback_thread = "l94"
    /\ tts' = [tts EXCEPT !.is_playing = FALSE, !.playback_thread = "l71"]
    /\ UNCHANGED ttsfixed

\* JarvisTTS.__init__ with an engine that synthesizes; non_blocking_tts as
\* the configuration has it
InitTts ==
    /\ config = DefaultConfig
    /\ frames = {LoudFrame}
    /\ max_calls = 0
    /\ ab = NewAudioBuffer(MaxSize)
    /\ calls = << >>
    /\ last = NoCall
    /\ ContIdle
    /\ WakeIdle
    /\ SessIdle
    /\ lt = NoListen
    /\ assistant = NoAssistant
    /\ \E non_blocking_tts \in BOOLEAN :
          tts = [NoTts EXCEPT !.non_blocking_tts = non_blocking_tts]

NextTts ==
    \/ Speak \/ SpeakStartWorker \/ SpeakReturn \/ StopPlayback \/ StopSpeaking
    \/ SpeechWorkerBegin \/ SpeechWorkerLoop \/ SpeechWorkerGet \/ SpeechWorkerDone
    \/ Synthesize \/ PlayAudioData \/ StartPlaybackWorker \/ PlaybackWaitEnds
    \/ SpeechEndCallback
    \/ PlaybackGet \/ PlaybackBegins \/ PlaybackPlays \/ PlaybackEnds

SpecTts == InitTts /\ [][NextTts]_vars

(***************************************************************************)
(* Reading the history of calls                                            *)
(***************************************************************************)
IsAdd(c) == c.op = "add_chunk"
IsGet(c) == c.op = "get_audio_data"

\* a frame above the speech threshold of a buffer with no background estimate
IsLoud(c) == IsAdd(c) /\ RLt(RMul(config.silence_threshold, RInt(3)), RInt(Rms(c.chunk)))
\* a frame at or below the silence threshold of such a buffer
IsSilent(c) == IsAdd(c) /\ RLe(RInt(Rms(c.chunk)), RMul(config.silence_threshold, Rat(1, 2)))

\* how many add_chunk calls of s returned True
RECURSIVE NumTrue(_)
NumTrue(s) ==
    IF s = << >> THEN 0
    ELSE (IF IsAdd(Head(s)) /\ Head(s).ret THEN 1 ELSE 0) + NumTrue(Tail(s))

\* the history is k loud frames and then m silent frames, and nothing else
LoudThenSilent(k, m) ==
    /\ Len(calls) = k + m
    /\ \A i \in 1..k : IsLoud(calls[i])
    /\ \A i \in (k + 1)..(k + m) : IsSilent(calls[i])

\* the index of the last get_audio_data call before call n (0: none)
RECURSIVE LastGetBefore(_)
LastGetBefore(n) ==
    IF n <= 1 THEN 0
    ELSE IF IsGet(calls[n - 1]) THEN n - 1 ELSE LastGetBefore(n - 1)

\* the samples line 146 appended in calls i..j
RECURSIVE SamplesAppended(_, _)
SamplesAppended(i, j) ==
    IF i > j THEN 0
    ELSE (IF IsAdd(calls[i]) /\ calls[i].appended THEN Len(calls[i].chunk) ELSE 0)
         + SamplesAppended(i + 1, j)

\* the index of the last call that detected a speech onset (0: none)
RECURSIVE LastOnset(_)
LastOnset(n) ==
    IF n = 0 THEN 0
    ELSE IF IsAdd(calls[n]) /\ calls[n].branch = "onset" THEN n
    ELSE LastOnset(n - 1)

(***************************************************************************)
(* Claims about one AudioBuffer used by one thread                         *)
(***************************************************************************)

\* C1: a fresh buffer fed one or more loud frames and then at least
\* silence_duration * sample_rate / chunk_size silent frames, with no
\* get_audio_data call, has seen add_chunk return True exactly once.
C1_TrueExactlyOnce ==
    \A k \in 1..Len(calls) :
        LET m == Len(calls) - k
        IN  (LoudThenSilent(k, m) /\ RLe(SilenceThresholdChunks(config), RInt(m)))
                => NumTrue(calls) = 1

\* C6: get_audio_data called right after add_chunk returned True returns a
\* non-empty sequence holding as many samples as were appended since the
\* previous retrieval.
C6_NothingMissing ==
    LET n == Len(calls)
    IN  (n >= 2 /\ IsGet(calls[n]) /\ IsAdd(calls[n - 1]) /\ calls[n - 1].ret)
            => /\ calls[n].data # << >>
               /\ Len(calls[n].data) = SamplesAppended(LastGetBefore(n) + 1, n - 1)

\* C7: under the default configuration, 5 frames of RMS 800 and then frames
\* of RMS 5: add_chunk returns False on the 5 speech frames and on the first
\* 4 silent frames, and True on the 5th silent frame.
C7_FifthSilentFrame ==
    (/\ config = DefaultConfig
     /\ \A i \in 1..Len(calls) :
            IsAdd(calls[i]) /\ calls[i].chunk = (IF i <= 5 THEN LoudFrame ELSE QuietFrame))
        => \A i \in 1..Len(calls) : i <= 10 => (calls[i].ret <=> i = 10)

C7_Witness ==
    /\ config = DefaultConfig
    /\ Len(calls) = 10
    /\ \A i \in 1..10 :
           IsAdd(calls[i]) /\ calls[i].chunk = (IF i <= 5 THEN LoudFrame ELSE QuietFrame)
    /\ calls[10].ret
    /\ Rms(LoudFrame) = 800 /\ Rms(QuietFrame) = 5

\* C8: a fresh buffer fed only all-zero frames never sees add_chunk return
\* True; speech_detected and is_recording stay false, the buffer stays empty.
C8_SilenceNeverCompletes ==
    (/\ RLt(RInt(0), config.silence_threshold)
     /\ \A i \in 1..Len(calls) : IsAdd(calls[i]) /\ calls[i].chunk = ZeroFrame)
        => /\ NumTrue(calls) = 0
           /\ ~ab.speech_detected
           /\ ~ab.is_recording
           /\ ab.buffer = << >>

C8_Witness ==
    /\ Len(calls) > MinRmsForBackground
    /\ \A i \in 1..Len(calls) : IsAdd(calls[i]) /\ calls[i].chunk = ZeroFrame
    /\ Len(ab.recent_rms) > MinRmsForBackground

\* C9: when every frame after the onset frame is continued speech (no frame
\* counted as silence, no retrieval), add_chunk returns False and keeps
\* recording while the frames since onset, the onset frame included, number
\* at most max_recording_time * sample_rate / chunk_size, and returns True
\* with is_recording false on the first frame that exceeds it.
C9_MaxDurationCutoff ==
    LET n == Len(calls)
        o == LastOnset(n)
        cnt == n - o + 1
    IN  (/\ o >= 1
         /\ \A i \in (o + 1)..n : IsAdd(calls[i]) /\ calls[i].branch = "speech"
         /\ RLe(RInt(cnt - 1), MaxRecordingChunks(config)))
            => IF RLt(MaxRecordingChunks(config), RInt(cnt))
               THEN calls[n].ret /\ ~ab.is_recording
               ELSE ~calls[n].ret /\ ab.is_recording

C9_Witness ==
    LET n == Len(calls)
        o == LastOnset(n)
    IN  /\ o >= 1
        /\ n > o
        /\ \A i \in (o + 1)..n : IsAdd(calls[i]) /\ calls[i].branch = "speech"
        /\ RLt(MaxRecordingChunks(config), RInt(n - o + 1))
        /\ RLe(RInt(n - o), MaxRecordingChunks(config))
        /\ calls[n].ret
        /\ ab.silence_counter = 0

\* C10: a get_audio_data call that directly follows a get_audio_data call
\* returns an empty sequence and changes no field of the AudioBuffer.
C10_SecondRetrievalIsNoOp ==
    [][(last.op = "get_audio_data" /\ last'.op = "get_audio_data" /\ calls' # calls)
          => (last'.data = << >> /\ ab' = ab)]_vars

C10_Witness ==
    /\ Len(calls) >= 2
    /\ IsGet(calls[Len(calls)])
    /\ IsGet(calls[Len(calls) - 1])
    /\ calls[Len(calls) - 1].data # << >>

(***************************************************************************)
(* Claims about continuous mode                                            *)
(***************************************************************************)
\* a _process_audio thread past the is_processing check of line 399
InFlight(w) == workers[w].pc \notin {"none", "l399"}

\* a thread inside get_audio_data
InGetAudioData(w) ==
    workers[w].pc \in {"l152", "l155", "l156", "l157", "l158", "l159", "l160"}

NumTranscriptsOf(u) == Len(SelectSeq(transcripts, LAMBDA t : t.utt = u))

\* the state AudioBuffer.__init__ leaves, as far as get_audio_data resets it
Rearmed(b) ==
    /\ b.buffer = << >>
    /\ ~b.speech_detected
    /\ ~b.is_recording
    /\ b.silence_counter = 0
    /\ b.recording_chunks = 0

\* C2: at most one _process_audio thread is past the is_processing check.
C2_AtMostOneInFlight ==
    Cardinality({w \in 1..MaxWorkers : InFlight(w)}) <= 1

\* C3: for each utterance at most one thread is started, and its samples
\* are passed to the transcription engine at most once.
C3_OneTaskPerUtterance ==
    \A u \in 1..utt : NumTasksFor(u) <= 1 /\ NumTranscriptsOf(u) <= 1

\* C4: an utterance refused at line 391 because a transcription was in
\* flight is dropped: no thread is started for it later, and its samples
\* are never retrieved from the buffer nor transcribed.
C4_DroppedStaysDropped ==
    \A u \in dropped :
        /\ NumTasksFor(u) = 0
        /\ NumTranscriptsOf(u) = 0
        /\ \A w \in 1..MaxWorkers : ~(Len(workers[w].data) > 0 /\ workers[w].tag = u)

\* C5, for a call that finds the buffer empty: when get_audio_data returns at
\* line 153, with the audio thread outside add_chunk and no other thread
\* inside get_audio_data, speech_detected, is_recording, silence_counter and
\* recording_chunks have their initial values.
C5_ResetAfterRetrieval ==
    [][\A w \in 1..MaxWorkers :
          (/\ workers[w].pc = "l152"
           /\ workers'[w].pc = "l410"
           /\ cb.pc \in {"idle", "l384"}
           /\ \A v \in 1..MaxWorkers : v # w => ~InGetAudioData(v))
              => Rearmed(ab')]_vars

(***************************************************************************)
(* Claims about one WakeWordDetector                                       *)
(***************************************************************************)
\* the text of call c holds a wake phrase, case ignored
IsMatch(c) ==
    \E i \in 1..Len(DefaultWakeWords) : Contains(DefaultWakeWords[i], ToLower(c.text))

\* the index of the last call before call n that returned True (0: none)
RECURSIVE LastDetectedBefore(_)
LastDetectedBefore(n) ==
    IF n <= 1 THEN 0
    ELSE IF dcalls[n - 1].ret THEN n - 1 ELSE LastDetectedBefore(n - 1)

\* C11: a call whose text holds a wake phrase returns True when no call
\* before it returned True; made less than the cooldown (2 s) after the last
\* call that returned True, it returns False; made once the cooldown has
\* elapsed since that call, it returns True.
C11_CooldownWindow ==
    \A j \in 1..Len(dcalls) :
        IsMatch(dcalls[j]) =>
            LET p == LastDetectedBefore(j)
            IN  IF p = 0 THEN dcalls[j].ret
                ELSE dcalls[j].ret <=>
                        ~RLt(RSub(dcalls[j].time, dcalls[p].time), RInt(Cooldown))

C11_Witness ==
    /\ Len(dcalls) = 3
    /\ \A j \in 1..3 : IsMatch(dcalls[j])
    /\ dcalls[1].ret /\ ~dcalls[2].ret /\ dcalls[3].ret
    /\ RLt(dcalls[1].time, dcalls[2].time)
    /\ RLt(RSub(dcalls[2].time, dcalls[1].time), RInt(Cooldown))
    /\ RLt(RSub(dcalls[3].time, dcalls[2].time), RInt(Cooldown))

\* C12: a detect() call that returns False (empty text, no wake phrase, or a
\* match inside the cooldown) leaves last_detection as it was; a call that
\* returns True sets it to the time of that call.
C12_OnlyDetectionStamps ==
    [][(dcalls' # dcalls)
          => LET c == dcalls'[Len(dcalls')]
             IN  IF c.ret THEN wd'.last_detection = c.time
                 ELSE wd'.last_detection = wd.last_detection]_vars

C12_Witness ==
    /\ Len(dcalls) = 3
    /\ dcalls[1].ret
    /\ IsMatch(dcalls[2]) /\ ~dcalls[2].ret
    /\ RLt(dcalls[1].time, dcalls[2].time)
    /\ dcalls[3].text = TextOk /\ ~dcalls[3].ret
    /\ RLt(dcalls[2].time, dcalls[3].time)
    /\ wd.last_detection = dcalls[1].time

(***************************************************************************)
(* Claims about starting, stopping and the callbacks                       *)
(***************************************************************************)
\* C13: a thread whose transcription failed (the engine raised, returned
\* empty text, or is not available) invokes neither callback.
C13_FailuresSwallowed ==
    \A w \in 1..MaxWorkers :
        workers[w].outcome \in {"raised", "empty", "unavailable"}
            => workers[w].fired = << >>

\* C14: a thread that got a non-empty transcription has, when it reaches
\* line 430, consulted the detector, invoked the wake-word callback exactly
\* when the detector matched, and after that invoked the speech callback
\* exactly once, with the transcribed text.
C14_WakeThenSpeech ==
    \A w \in 1..MaxWorkers :
        (workers[w].pc = "l430" /\ workers[w].outcome = "text")
            => /\ workers[w].consulted
               /\ workers[w].fired =
                     (IF workers[w].detected /\ callbacks.wake
                      THEN << [cb |-> "wake", text |-> << >>] >> ELSE << >>)
                     \o (IF callbacks.speech
                         THEN << [cb |-> "speech", text |-> workers[w].text] >>
                         ELSE << >>)

\* C15: a thread whose transcription succeeded invokes no callback once
\* stop_listening has returned (and until start_listening is called again).
C15_DiscardedAfterStop ==
    \A w \in 1..MaxWorkers : workers[w].outcome = "text" => ~workers[w].late

\* C16: while the coordinator is not listening and no start_listening or
\* stop_listening call is under way, no add_chunk call is made.
C16_NoAddChunkAfterStop ==
    [][(~is_listening /\ ctl.pc = "idle") => fed' = fed]_vars

\* stop_listening has cleared is_listening and waits in stop_stream for a
\* callback that passed the check of line 375 before
C16_Witness ==
    /\ ~is_listening /\ ctl.pc = "l367" /\ ctl.op = "stop"
    /\ cb.pc = "l382"
    /\ stream.state = "active"

\* C17: a stop_listening call made while not listening, and a
\* start_listening call made while listening, return at once: no field of
\* the coordinator changes and no stream is opened, stopped or closed.
C17_StartStopIdempotent ==
    [][(/\ ctl'.n # ctl.n
        /\ \/ ctl'.op = "stop" /\ ~is_listening
           \/ ctl'.op = "start" /\ is_listening)
          => /\ ctl'.pc = "idle"
             /\ UNCHANGED <<is_listening, stream, ab, is_processing, cb, workers, wd>>]_vars

C17_Witness ==
    /\ ctl.op = "stop" /\ ctl.noop /\ ctl.pc = "idle"
    /\ stream.opened >= 1 /\ stream.closed = stream.opened
    /\ ~is_listening

\* C18: no _process_audio thread is inside get_audio_data while the audio
\* thread is inside add_chunk.
C18_BufferOwnedByCapture ==
    ~(/\ cb.pc \notin {"idle", "l384"}
      /\ \E w \in 1..MaxWorkers : InGetAudioData(w))

\* C19: when start_listening begins a session, the AudioBuffer is as
\* __init__ left it: empty, speech_detected and is_recording false, both
\* counters zero.
C19_FreshSessionState ==
    [][(~is_listening /\ is_listening') => Rearmed(ab')]_vars

(***************************************************************************)
(* Claims about listen_and_transcribe                                      *)
(***************************************************************************)
\* C20: when listen_and_transcribe returns after its loop ended, by the
\* timeout or by a complete utterance, no captured sample is left in the
\* buffer: the samples captured were given to the engine, once, and the text
\* returned is what the engine made of them.
C20_TranscribesWhatWasCaptured ==
    (lt.pc = "done" /\ lt.left \in {"timeout", "complete"})
        => /\ lt.temp_buffer.buffer = << >>
           /\ lt.data # << >> => (/\ lt.engine_in = << lt.data >>
                                  /\ lt.result = Strip(lt.transcription))

\* C21: listen_and_transcribe returns "" when audio.open raised, when every
\* stream.read raised, and when the engine raised or is not available.
C21_FailuresReturnEmpty ==
    (/\ lt.pc = "done"
     /\ \/ lt.left = "error"
        \/ lt.read_errors > 0 /\ lt.frames_read = 0
        \/ lt.outcome \in {"raised", "unavailable"})
        => lt.result = << >>

(***************************************************************************)
(* More claims about one AudioBuffer used by one thread                    *)
(***************************************************************************)
\* the step is an add_chunk call
AddChunkStep == calls' # calls /\ IsAdd(last')

\* how many add_chunk calls at the end of s[1..n] took the silence branch one
\* after the other (a get_audio_data call that returned nothing changes no
\* counter and is skipped)
RECURSIVE TrailingSilent(_, _)
TrailingSilent(s, n) ==
    IF n = 0 THEN 0
    ELSE IF IsGet(s[n])
    THEN (IF s[n].data = << >> THEN TrailingSilent(s, n - 1) ELSE 0)
    ELSE IF s[n].branch = "silence" THEN 1 + TrailingSilent(s, n - 1)
    ELSE 0

\* the step is an add_chunk call that returned True at line 131: it took the
\* silence branch and never came to line 138
BySilence ==
    /\ AddChunkStep
    /\ last'.ret
    /\ last'.branch = "silence"
    /\ ab'.recording_chunks = ab.recording_chunks

\* C22: during an utterance a frame above the silence threshold sets
\* silence_counter to 0; add_chunk returns True for silence only after
\* strictly more than silence_duration * sample_rate / chunk_size silent
\* frames in a row, and that call leaves the buffer as it was.
C22_Hysteresis ==
    [][AddChunkStep =>
        /\ (ab.speech_detected
              /\ RLt(SilenceThreshold(ab, config), RInt(Rms(last'.chunk))))
                => ab'.silence_counter = 0
        /\ BySilence
                => /\ RLt(SilenceThresholdChunks(config),
                          RInt(TrailingSilent(calls', Len(calls'))))
                   /\ ab'.buffer = ab.buffer]_vars

\* speech, one silent frame, a frame between the thresholds, and then the
\* two silent frames in a row that line 131 needs
C22_Witness ==
    /\ config = ShortConfig
    /\ Len(calls) = 5
    /\ \A i \in 1..5 : IsAdd(calls[i])
    /\ calls[1].branch = "onset"
    /\ calls[2].branch = "silence"
    /\ calls[3].chunk = MidFrame /\ calls[3].branch = "speech"
    /\ calls[4].branch = "silence"
    /\ calls[5].branch = "silence" /\ calls[5].ret
    /\ ab.silence_counter = 2
    /\ ab.buffer # << >>

\* C23: an add_chunk call changes the buffer only when it ends with
\* is_recording true and returns False; the call that detects the onset
\* finds the buffer empty and leaves exactly its own samples in it; a call
\* made before any onset leaves the buffer empty; a call that returns True
\* leaves the buffer as it was.
C23_AppendOnlyWhileRecording ==
    [][AddChunkStep =>
        /\ (last'.appended \/ ab'.buffer # ab.buffer)
                => ab'.is_recording /\ ~last'.ret
        /\ (last'.branch = "onset" /\ ~last'.ret)
                => ab.buffer = << >> /\ ab'.buffer = last'.chunk
        /\ ~ab'.speech_detected => ab'.buffer = << >>
        /\ last'.ret => ab'.buffer = ab.buffer /\ ~last'.appended]_vars

\* a frame before the onset, the onset, a frame of the utterance and the
\* frames that complete it: the buffer holds the second and the third frame
C23_Witness ==
    /\ Len(calls) >= 4
    /\ \A i \in 1..Len(calls) : IsAdd(calls[i])
    /\ calls[1].branch = "none" /\ calls[1].chunk # << >>
    /\ calls[2].branch = "onset"
    /\ calls[3].branch = "speech"
    /\ calls[Len(calls)].ret
    /\ ab.buffer = calls[2].chunk \o calls[3].chunk

\* the RMS values of the add_chunk calls of s, oldest first
RECURSIVE RmsHistory(_)
RmsHistory(s) ==
    IF s = << >> THEN << >>
    ELSE IF IsAdd(Head(s)) THEN <<Rms(Head(s).chunk)>> \o RmsHistory(Tail(s))
    ELSE RmsHistory(Tail(s))

\* the last RecentRmsMaxLen values of s
LastWindow(s) ==
    IF Len(s) <= RecentRmsMaxLen THEN s
    ELSE SubSeq(s, Len(s) - RecentRmsMaxLen + 1, Len(s))

\* C25: an add_chunk call that starts with speech_detected true leaves
\* background_rms unchanged; one that starts with speech_detected false
\* sets it to the mean of the last 10 RMS values when there are at least 5,
\* and leaves it unchanged otherwise.
C25_BackgroundFrozen ==
    [][AddChunkStep =>
        LET window == LastWindow(RmsHistory(calls'))
        IN  IF ~ab.speech_detected /\ Len(window) >= 5
            THEN ab'.background_rms = Mean(window)
            ELSE ab'.background_rms = ab.background_rms]_vars

\* an estimate was made, and speech has since moved the window away from it
C25_Witness ==
    /\ ab.speech_detected
    /\ RLt(RInt(0), ab.background_rms)
    /\ Len(ab.recent_rms) >= 5
    /\ ab.background_rms # Mean(ab.recent_rms)

\* C29: add_chunk on an empty frame never detects an onset, takes the
\* silence branch and adds 1 to silence_counter when speech_detected is
\* true, leaves the buffer as it was, and pushes 0 as its RMS.
C29_EmptyFrameIsSilence ==
    [][(AddChunkStep /\ last'.chunk = EmptyFrame) =>
        /\ last'.branch # "onset"
        /\ ab'.speech_detected = ab.speech_detected
        /\ ab.speech_detected
             => /\ last'.branch = "silence"
                /\ ab'.silence_counter = ab.silence_counter + 1
        /\ ab'.buffer = ab.buffer
        /\ ab'.recent_rms[Len(ab'.recent_rms)] = 0]_vars

\* empty frames before the onset, and after it an empty frame that is
\* counted as silence while the buffer is recording
C29_Witness ==
    /\ Len(calls) >= 3
    /\ IsAdd(calls[1]) /\ calls[1].chunk = EmptyFrame /\ calls[1].branch = "none"
    /\ IsAdd(calls[2]) /\ calls[2].branch = "onset"
    /\ IsAdd(last) /\ last.chunk = EmptyFrame /\ last.branch = "silence"
    /\ ab.silence_counter >= 1
    /\ ab.buffer # << >>

\* C27: when audio.open raised in start_listening, the coordinator is left
\* with is_listening false and no stream.
C27_FailedOpenLeavesStopped ==
    (ctl.pc = "idle" /\ ctl.op = "start" /\ ctl.raised)
        => ~is_listening /\ stream.state = "none"

(***************************************************************************)
(* Claims about the configuration                                          *)
(***************************************************************************)
\* C24: for a positive silence_threshold, the speech threshold add_chunk
\* computes is strictly greater than the silence threshold it computes from
\* the same background_rms.
C24_SpeechAboveSilence ==
    RLt(RInt(0), config.silence_threshold)
        => RLt(SilenceThreshold(ab, config), SpeechThreshold(ab, config))

\* a call that took the adaptive branch, with the background estimate and
\* not the configured value deciding the silence threshold
C24_Witness ==
    /\ calls # << >>
    /\ RLt(RInt(0), config.silence_threshold)
    /\ RLt(RInt(0), ab.background_rms)
    /\ SilenceThreshold(ab, config) = RAdd(ab.background_rms, RInt(10))
    /\ SilenceThreshold(ab, config) # config.silence_threshold

\* all five values are positive
ValidConfig(cfg) ==
    /\ cfg.sample_rate > 0
    /\ cfg.chunk_size > 0
    /\ RLt(RInt(0), cfg.silence_threshold)
    /\ RLt(RInt(0), cfg.silence_duration)
    /\ RLt(RInt(0), cfg.max_recording_time)

\* C26: add_chunk is never run under a configuration with a value <= 0.
C26_InvalidConfigRejected ==
    calls # << >> => ValidConfig(config)

(***************************************************************************)
(* More claims about continuous mode                                       *)
(***************************************************************************)
\* a step of a callback that is under way
CallbackStep ==
    CbBranch \/ CbStore \/ CbIncrement \/ CbL137 \/ CbComplete \/ CbL146 \/ CbL384

\* a thread can still be started
ThreadAvailable == \E w \in 1..MaxWorkers : ~Live(w)

\* C28: while a _process_audio thread exists, a callback under way can
\* always take its next step and the next frame can always be delivered,
\* and the step that delivers a frame is the step in which add_chunk takes
\* it (its RMS is pushed to recent_rms), one frame at a time.
C28_CallbackNeverWaits ==
    [][/\ (~NoneLive /\ ThreadAvailable /\ cb.pc # "idle") => ENABLED CallbackStep
       /\ (~NoneLive /\ cb.pc = "idle" /\ fed < MaxFramesCont) => ENABLED CbDeliver
       /\ fed' # fed =>
            /\ fed' = fed + 1
            /\ cb.pc = "idle"
            /\ \E chunk \in frames :
                 ab'.recent_rms =
                     DequeExtend(ab.recent_rms, <<Rms(chunk)>>, RecentRmsMaxLen)]_vars

\* a callback has come to line 384 while a thread is transcribing
C28_Witness ==
    /\ cb.pc = "l384"
    /\ is_processing
    /\ \E w \in 1..MaxWorkers : workers[w].pc = "l410"
    /\ fed >= 3

\* no callback is under way and no _process_audio thread exists
Quiescent == cb.pc = "idle" /\ NoneLive

\* C30: continuous mode never comes to rest with speech_detected true, the
\* buffer empty and is_recording false (a state that no later frame and no
\* later thread changes: no frame is an onset, none is appended, and
\* get_audio_data returns at line 153 before its resets).
C30_NeverStuck ==
    ~(/\ Quiescent
      /\ ab.speech_detected
      /\ ab.buffer = << >>
      /\ ~ab.is_recording)

(***************************************************************************)
(* Invariants of one AudioBuffer used by one thread                        *)
(***************************************************************************)
\* C31: is_recording, a non-empty buffer and a positive silence_counter
\* each imply speech_detected.
C31_SpeechDetectedGates ==
    /\ ab.is_recording => ab.speech_detected
    /\ ab.buffer # << >> => ab.speech_detected
    /\ ab.silence_counter > 0 => ab.speech_detected

\* an utterance that follows a retrieval: recording, samples in the buffer
\* and silence counted
C31_Witness ==
    /\ \E i \in 1..Len(calls) : IsGet(calls[i]) /\ calls[i].data # << >>
    /\ ab.is_recording
    /\ ab.buffer # << >>
    /\ ab.silence_counter > 0
    /\ ab.speech_detected

\* the last k elements of s, or all of s
Suffix(s, k) == IF Len(s) <= k THEN s ELSE SubSeq(s, Len(s) - k + 1, Len(s))

\* the samples line 146 appended in calls i..j, in order
RECURSIVE ChunksAppended(_, _)
ChunksAppended(i, j) ==
    IF i > j THEN << >>
    ELSE (IF IsAdd(calls[i]) /\ calls[i].appended THEN calls[i].chunk ELSE << >>)
         \o ChunksAppended(i + 1, j)

\* the index of the last get_audio_data call among calls 1..n (0: none)
RECURSIVE LastGet(_)
LastGet(n) ==
    IF n = 0 THEN 0 ELSE IF IsGet(calls[n]) THEN n ELSE LastGet(n - 1)

\* C32: the buffer never holds more than max_size samples; it holds the
\* last max_size samples appended since the last retrieval, in order, and
\* get_audio_data returns the last max_size samples appended since the
\* retrieval before it.
C32_RingBuffer ==
    LET n == Len(calls)
    IN  /\ Len(ab.buffer) <= ab.max_size
        /\ ab.buffer = Suffix(ChunksAppended(LastGet(n) + 1, n), ab.max_size)
        /\ (n >= 1 /\ IsGet(calls[n]))
               => calls[n].data =
                      Suffix(ChunksAppended(LastGetBefore(n) + 1, n - 1), ab.max_size)

\* more samples than max_size were appended, and then retrieved
C32_Witness ==
    LET n == Len(calls)
    IN  /\ n >= 1 /\ IsGet(calls[n])
        /\ Len(calls[n].data) = ab.max_size
        /\ SamplesAppended(LastGetBefore(n) + 1, n - 1) > ab.max_size

\* floor of a rational
RFloor(r) == r.n \div r.d

\* how many of the calls i..j appended their frame
RECURSIVE FramesAppended(_, _)
FramesAppended(i, j) ==
    IF i > j THEN 0
    ELSE (IF IsAdd(calls[i]) /\ calls[i].appended THEN 1 ELSE 0)
         + FramesAppended(i + 1, j)

\* C33: recording_chunks is at most
\* floor(max_recording_time * sample_rate / chunk_size) + 1, and at most
\* floor(max_recording_time * sample_rate / chunk_size) frames have been
\* appended since the last onset.
C33_BoundedAccumulation ==
    LET n == Len(calls)
        maxFrames == RFloor(MaxRecordingChunks(config))
    IN  /\ ab.recording_chunks <= maxFrames + 1
        /\ LastOnset(n) > 0 => FramesAppended(LastOnset(n), n) <= maxFrames

\* the guard has fired: both numbers are at their bound, and speech goes on
C33_Witness ==
    LET n == Len(calls)
        maxFrames == RFloor(MaxRecordingChunks(config))
    IN  /\ ab.recording_chunks = maxFrames + 1
        /\ LastOnset(n) > 0
        /\ FramesAppended(LastOnset(n), n) = maxFrames
        /\ n >= LastOnset(n) + maxFrames + 1
        /\ IsAdd(calls[n]) /\ calls[n].branch = "speech" /\ ~calls[n].ret

\* the RMS values of the frames processed outside an utterance (the frame
\* that starts one is counted as outside: line 85 sees speech_detected false)
RECURSIVE OutsideRms(_)
OutsideRms(s) ==
    IF s = << >> THEN << >>
    ELSE IF IsAdd(Head(s)) /\ Head(s).branch \in {"none", "onset"}
    THEN <<Rms(Head(s).chunk)>> \o OutsideRms(Tail(s))
    ELSE OutsideRms(Tail(s))

\* C34: background_rms is its initial 0.0 or the mean of the RMS values of
\* some number of the latest frames processed outside an utterance.
C34_BackgroundFromOutside ==
    LET out == OutsideRms(calls)
    IN  \/ ab.background_rms = RInt(0)
        \/ \E k \in 1..Len(out) : ab.background_rms = Mean(Suffix(out, k))

(***************************************************************************)
(* More claims about the session                                           *)
(***************************************************************************)
\* C35: a _process_audio thread that went past line 403 leaves with
\* is_processing false, whatever happened in between, and is_processing is
\* false whenever no such thread exists.
C35_FlagCleared ==
    [][/\ \A w \in 1..MaxWorkers :
            (workers[w].pc \notin {"none", "l399"} /\ workers'[w].pc = "none")
                => ~is_processing'
       /\ NoneLive' => ~is_processing']_vars

\* a thread transcribed, matched a wake word and has left
C35_Witness ==
    /\ NoneLive
    /\ ~is_processing
    /\ wd.last_detection # RInt(0)
    /\ ab.buffer = << >>

C38_EndAfterPlayback ==
    \A i \in 1..Len(tts.ended) :
        tts.ended[i].handed /\ ~tts.ended[i].failed => tts.ended[i].played

\* a text passed to speak after the last stop_speaking call is in the
\* speech queue, no speech worker is alive, and no speak or stop_speaking
\* call is under way
Stranded ==
    /\ tts.non_blocking_tts
    /\ tts.client.pc = "idle"
    /\ ~Alive(tts.speech_thread)
    /\ \E i \in 1..Len(tts.speech_queue) : tts.speech_queue[i] > tts.stopped_at

\* C39: with non-blocking TTS, no text passed to speak, also after a
\* stop_speaking call, is left in the queue with the worker thread gone
C39_NoTextStranded == ~Stranded

====
